---- MODULE Spec2Model ----
(***************************************************************************)
(* Catchment scoring of NR-SitePlanner: the SimpleIsochrone handler        *)
(* (isochrone request, datazone selection by centroid, plot scores), the   *)
(* pure functions it is built from, the accessibility view                 *)
(* (generateIsochrones, clearIsochrones, findIntersectingZones,            *)
(* calculateAccessibilityScore, initializeIsochrones) and MapInteractions  *)
(* with the click handlers of the map pages.                               *)
(*                                                                         *)
(* JavaScript numbers are modelled as exact rationals [n, d] in lowest     *)
(* terms with d > 0; d = 0 stands for NaN (n = 0), Infinity (n = 1) and    *)
(* -Infinity (n = -1).                                                     *)
(***************************************************************************)
EXTENDS Integers, Sequences, FiniteSets, TLC

VARIABLES
    listeners,                  \* the listeners of landSelectionChanged that initializeIsochrones added
    toggleButtons,              \* the elements with id isochrone-toggle
    styleElements,              \* the elements with id isochrone-styles
    checked,                    \* the timer of checkAndInitializeIsochrones has fired
    called,                     \* the calls the listeners made for the last landSelectionChanged
    clickHandlers,              \* MapInteractions.clickHandlers
    registered,                 \* how often registerClickHandler has run for each layer
    featureStates,              \* the map's feature-state: per source the ids with selected = true
    selectedIds,                \* selectedEmptyLandId, selectedStationId, selectedLandId
    invoked,                    \* the handlers the last map click invoked, with their feature
    lastStack,                  \* what queryRenderedFeatures returned at the last map click
    lastClicked,                \* per source the feature whose click was handled last
    passedOn,                   \* the feature last passed to handleFeatureSelection or displayFeatureScore
    camera,                     \* the feature the map last flew to
    scoreInputs,                \* calculateAccessibilityScore: house price, travel time, area read
    scoreComponents,            \* calculateAccessibilityScore: the scores it displays
    zones,                      \* scorer input: the zones array passed to calculatePlotScores
    scoreData,                  \* scorer output: the object calculatePlotScores returned
    stats,                      \* scorer output: the stats object computed beside it
    minutes,                    \* SimpleIsochrone.minutes
    marker,                     \* SimpleIsochrone.marker position (getLngLat), NoLngLat before setLngLat
    isoData,                    \* data of the map source 'iso'
    datazones,                  \* what map.querySourceFeatures('datazones') returns now
    datazonesWithinIsochrone,   \* SimpleIsochrone.datazonesWithinIsochrone
    status,                     \* content of the element #isochrone-status
    pending,                    \* isochrone requests in flight (fetch not yet resolved)
    nextReq,                    \* number of requests started so far
    answered,                   \* history: ids of the requests whose response was handled
    thrown,                     \* the event handled last ended with an uncaught exception
    geoFeature,                 \* geometry input: the feature (null when it is missing)
    geoPoint,                   \* geometry input: the point tested against the outer ring
    insideResult,               \* geometry output: what pointInPolygon returned
    centroidResult,             \* geometry output: what calculateCentroid returned
    areaResult,                 \* geometry output: how calculateGeoJSONArea ended
    boxShapes,                  \* box input: the two features whose bounding boxes are compared
    boxesResult,                \* box output: what bboxesIntersect returned for their boxes
    geojsonData,                \* geojsonData.features of map-data.js after mergeData
    selectedLandId,             \* dataHandler.selectedLandId, 0 when no land is selected
    landResults,                \* per empty land: the averages written to its properties
    isochronesVisible,          \* isochronesVisible of the accessibility view
    accessSource,               \* data of the map source 'iso' of dataHandler.map, <<>> when absent
    isoLayer,                   \* the layer 'isoLayer' is on the map
    highlight,                  \* zones of 'intersecting-zones-source', <<>> when absent
    resultsShown,               \* results in the results container, <<>> when empty
    scoreShown,                 \* what #accessibility-score was computed from, <<>> when empty
    toggleText,                 \* text of the button #isochrone-toggle
    generating,                 \* generateIsochrones calls waiting for their fetch
    generated,                  \* number of generateIsochrones calls that started a fetch
    dispatched,                 \* number of isochroneGenerated events dispatched
    alerted                     \* the alert the event handled last showed, "" for none

vars == <<listeners, toggleButtons, styleElements, checked, called, clickHandlers, registered, featureStates, selectedIds, invoked, lastStack,
          lastClicked, passedOn, camera, scoreInputs, scoreComponents, zones, scoreData, stats, minutes, marker, isoData, datazones,
          datazonesWithinIsochrone, status, pending, nextReq, answered, thrown,
          geoFeature, geoPoint, insideResult, centroidResult, areaResult,
          boxShapes, boxesResult,
          geojsonData, selectedLandId, landResults, isochronesVisible, accessSource,
          isoLayer, highlight, resultsShown, scoreShown, toggleText, generating,
          generated, dispatched, alerted>>

scoreVars == <<zones, scoreData, stats>>
geomVars == <<geoFeature, geoPoint, insideResult, centroidResult, areaResult>>
isoVars == <<minutes, marker, isoData, datazones, datazonesWithinIsochrone,
             status, pending, nextReq, answered, thrown>>

boxVars == <<boxShapes, boxesResult>>
pageVars == <<listeners, toggleButtons, styleElements, checked>>
ratingVars == <<scoreInputs, scoreComponents>>
clickVars == <<clickHandlers, registered, featureStates, selectedIds, invoked, lastStack,
               lastClicked, passedOn, camera>>
accessVars == <<listeners, toggleButtons, styleElements, checked, called, geojsonData, selectedLandId, landResults, isochronesVisible, accessSource,
                isoLayer, highlight, resultsShown, scoreShown, toggleText, generating,
                generated, dispatched, alerted>>

\* what the events of one part leave alone
otherThanIso == <<scoreVars, geomVars, boxVars, accessVars, ratingVars, clickVars>>
otherThanScore == <<isoVars, geomVars, boxVars, accessVars, ratingVars, clickVars>>
otherThanGeom == <<scoreVars, isoVars, boxVars, accessVars, ratingVars, clickVars>>
otherThanBoxes == <<scoreVars, isoVars, geomVars, accessVars, ratingVars, clickVars>>
otherThanAccess == <<scoreVars, isoVars, geomVars, boxVars, ratingVars, clickVars>>
otherThanRating == <<scoreVars, isoVars, geomVars, boxVars, accessVars, clickVars>>
otherThanClicks == <<scoreVars, isoVars, geomVars, boxVars, accessVars, ratingVars>>

-----------------------------------------------------------------------------
(* Numbers *)

Abs(i) == IF i < 0 THEN -i ELSE i

RECURSIVE Gcd(_, _)
Gcd(a, b) == IF b = 0 THEN a ELSE Gcd(b, a % b)

NaN == [n |-> 0, d |-> 0]
Infinity == [n |-> 1, d |-> 0]
MinusInfinity == [n |-> -1, d |-> 0]

Sign(i) == IF i < 0 THEN -1 ELSE IF i > 0 THEN 1 ELSE 0

\* the rational n/d (d # 0) in lowest terms with a positive denominator
Rat(n, d) ==
    LET g == Gcd(Abs(n), Abs(d))
        s == IF d < 0 THEN -1 ELSE 1
    IN  [n |-> s * (n \div g), d |-> s * (d \div g)]

Num(i) == [n |-> i, d |-> 1]

isNaN(a) == a.d = 0 /\ a.n = 0
isInfinite(a) == a.d = 0 /\ a.n # 0
isFinite(a) == a.d # 0

RNeg(a) == [n |-> -a.n, d |-> a.d]

\* a + b: an infinity absorbs every finite number; Infinity - Infinity is NaN
RAdd(a, b) ==
    IF isNaN(a) \/ isNaN(b) THEN NaN
    ELSE IF isInfinite(a) THEN (IF isInfinite(b) /\ b.n # a.n THEN NaN ELSE a)
    ELSE IF isInfinite(b) THEN b
    ELSE Rat(a.n * b.d + b.n * a.d, a.d * b.d)

RSub(a, b) == RAdd(a, RNeg(b))

\* a * b: 0 * Infinity is NaN
RMul(a, b) ==
    IF isNaN(a) \/ isNaN(b) THEN NaN
    ELSE IF isInfinite(a) \/ isInfinite(b) THEN [n |-> Sign(a.n) * Sign(b.n), d |-> 0]
    ELSE Rat(a.n * b.n, a.d * b.d)

\* a / b: x / 0 is an infinity of the sign of x, 0 / 0 and Infinity / Infinity
\* are NaN (the sign of a zero is not kept: a zero divisor counts as +0)
RQuot(a, b) ==
    IF isNaN(a) \/ isNaN(b) THEN NaN
    ELSE IF isInfinite(a)
         THEN (IF isInfinite(b) THEN NaN
               ELSE [n |-> a.n * (IF b.n < 0 THEN -1 ELSE 1), d |-> 0])
    ELSE IF isInfinite(b) THEN Num(0)
    ELSE IF b.n = 0 THEN [n |-> Sign(a.n), d |-> 0]
    ELSE Rat(a.n * b.d, a.d * b.n)

\* a / k for an integer k
RDiv(a, k) == RQuot(a, Num(k))

\* comparisons with NaN are false, as in JavaScript
RLt(a, b) ==
    /\ ~isNaN(a) /\ ~isNaN(b)
    /\ IF isInfinite(a) \/ isInfinite(b)
       THEN a # b /\ (a = MinusInfinity \/ b = Infinity)
       ELSE a.n * b.d < b.n * a.d
RLe(a, b) == ~isNaN(a) /\ ~isNaN(b) /\ (a = b \/ RLt(a, b))

-----------------------------------------------------------------------------
(* JavaScript values of feature properties and parseFloat *)

Undefined == [t |-> "undefined", v |-> <<>>]
Null == [t |-> "null", v |-> <<>>]
NumV(r) == [t |-> "number", v |-> r]
StrV(s) == [t |-> "string", v |-> s]
ArrV(a) == [t |-> "array", v |-> a]
Object(map) == [t |-> "object", v |-> map]

\* !!v
Truthy(v) ==
    CASE v.t \in {"undefined", "null"} -> FALSE
      [] v.t = "number" -> ~isNaN(v.v) /\ v.v.n # 0
      [] v.t = "string" -> Len(v.v) > 0
      [] OTHER -> TRUE

isArray(v) == v.t = "array"

\* a.length of an array
Length(a) == Len(a.v)

\* a[i] (i counted from 0) of an array: undefined outside it
At(a, i) == IF isArray(a) /\ i >= 0 /\ i < Len(a.v) THEN a.v[i + 1] ELSE Undefined

\* ToNumber of a coordinate: a number is itself; an array reads as the text of
\* its elements joined by ",", a number only when it has at most one element
ToNumber(v) ==
    CASE v.t = "number" -> v.v
      [] v.t = "null" -> Num(0)
      [] v.t = "array" /\ Len(v.v) = 0 -> Num(0)
      [] v.t = "array" /\ Len(v.v) = 1 /\ v.v[1].t = "number" -> v.v[1].v
      [] OTHER -> NaN

DigitChars == <<"0", "1", "2", "3", "4", "5", "6", "7", "8", "9">>
IsDigit(c) == \E i \in 1..10 : DigitChars[i] = c
DigitVal(c) == (CHOOSE i \in 1..10 : DigitChars[i] = c) - 1
IsWhite(c) == c \in {" ", "\t", "\n"}

RECURSIVE SkipWhite(_, _)
SkipWhite(s, i) == IF i <= Len(s) /\ IsWhite(s[i]) THEN SkipWhite(s, i + 1) ELSE i

RECURSIVE DigitsEnd(_, _)
DigitsEnd(s, i) == IF i <= Len(s) /\ IsDigit(s[i]) THEN DigitsEnd(s, i + 1) ELSE i

RECURSIVE DigitsValue(_, _, _, _)
DigitsValue(s, i, j, acc) ==
    IF i >= j THEN acc ELSE DigitsValue(s, i + 1, j, acc * 10 + DigitVal(s[i]))

RECURSIVE Pow10(_)
Pow10(k) == IF k = 0 THEN 1 ELSE 10 * Pow10(k - 1)

\* the value of the prefix s[i1..i3-1] = digits[.digits], the integer part
\* ending before i2; NaN when the prefix has no digit
ParseDecimal(s, neg, i1, i2, i3) ==
    IF (i2 - i1) + (i3 - i2) <= (IF i3 > i2 THEN 1 ELSE 0) THEN NaN
    ELSE IF i3 = i2
         THEN Rat((IF neg THEN -1 ELSE 1) * DigitsValue(s, i1, i2, 0), 1)
         ELSE Rat((IF neg THEN -1 ELSE 1) *
                    (DigitsValue(s, i1, i2, 0) * Pow10(i3 - (i2 + 1))
                        + DigitsValue(s, i2 + 1, i3, 0)),
                  Pow10(i3 - (i2 + 1)))

\* the fraction, when a "." follows the integer digits
ParseFraction(s, neg, i1, i2) ==
    IF i2 <= Len(s) /\ s[i2] = "."
    THEN ParseDecimal(s, neg, i1, i2, DigitsEnd(s, i2 + 1))
    ELSE ParseDecimal(s, neg, i1, i2, i2)

InfinityChars == <<"I", "n", "f", "i", "n", "i", "t", "y">>

\* the text at i1 starts with "Infinity"
StartsInfinity(s, i1) ==
    /\ i1 + 7 <= Len(s)
    /\ \A k \in 1..8 : s[i1 + k - 1] = InfinityChars[k]

\* after the sign: "Infinity", or a decimal literal
ParseUnsigned(s, neg, i1) ==
    IF StartsInfinity(s, i1) THEN (IF neg THEN MinusInfinity ELSE Infinity)
    ELSE ParseFraction(s, neg, i1, DigitsEnd(s, i1))

\* the optional sign at i0
ParseSigned(s, i0) ==
    IF i0 <= Len(s) /\ s[i0] \in {"-", "+"}
    THEN ParseUnsigned(s, s[i0] = "-", i0 + 1)
    ELSE ParseUnsigned(s, FALSE, i0)

\* parseFloat on a string: leading white space, an optional sign, then
\* "Infinity" or the longest prefix digits[.digits]; NaN when that prefix has
\* no digit
ParseString(s) == ParseSigned(s, SkipWhite(s, 1))

\* parseFloat(v): ToString(v) parsed; a number survives the round trip,
\* undefined and null read "undefined" and "null", which parse to NaN
parseFloat(v) ==
    CASE v.t = "number" -> v.v
      [] v.t = "string" -> ParseString(v.v)
      [] OTHER -> NaN

-----------------------------------------------------------------------------
(* The taxonomy of calculateDatazoneStatistics *)

Metric(key, label) == [key |-> key, label |-> label]

categories == <<
    [heading |-> <<"Eradicating", " ", "Child", " ", "Poverty">>,
     metrics |-> <<
        Metric("HEALTH OUTCOMES", "Health Outcomes"),
        Metric("CHILDREN IN FAMILIES WITH LIMITED RESOURCES", "Children in Families with Limited Resources"),
        Metric("CHILD BENEFIT", "Child Benefit") >>],
    [heading |-> <<"Growing", " ", "the", " ", "Economy">>,
     metrics |-> <<
        Metric("INDEX OF MULTIPLE DEPRIVATION", "Income Indicators"),
        Metric("BUSINESS DEMOGRAPHY", "Business Demography (Survival)"),
        Metric("ECONOMIC ACTIVITY", "Economic Activity / Inactivity"),
        Metric("HOUSE SALES PRICE", "House Sale Prices"),
        Metric("EARNINGS", "Earnings"),
        Metric("UNDEREMPLOYMENT", "Underemployment") >>],
    [heading |-> <<"Tackling", " ", "the", " ", "Climate", " ", "Emergency">>,
     metrics |-> <<
        Metric("CAR OWNERSHIP", "Car Ownership"),
        Metric("HOUSING QUALITY", "Housing Quality"),
        Metric("ENERGY CONSUMPTION", "Energy Consumption"),
        Metric("POPULATION ESTIMATES", "Population Estimates") >>],
    [heading |-> <<"Ensuring", " ", "High", " ", "Quality", " ", "and", " ",
                   "Sustainable", " ", "Public", " ", "Services">>,
     metrics |-> <<
        Metric("LOCAL SERVICE SATISFACTION", "Local Service Satisfaction"),
        Metric("ACCESS TO PUBLIC TRANSPORT", "Access to Public Transport"),
        Metric("BUS ACCESSIBILITY", "Bus Accessibility"),
        Metric("GEOGRAPHIC ACCESS TO SERVICES INDICATOR", "Geographic Access to Services") >>]
    >>

negativeImpactMetrics == <<
    "norm_CHILDREN IN FAMILIES WITH LIMITED RESOURCES",
    "norm_INDEX OF MULTIPLE DEPRIVATION",
    "norm_ENERGY CONSUMPTION",
    "norm_CHILD BENEFIT",
    "norm_HEALTH OUTCOMES",
    "norm_GEOGRAPHIC ACCESS TO SERVICES INDICATOR" >>

\* Array.prototype.includes
includes(arr, x) == \E i \in 1..Len(arr) : arr[i] = x

\* heading.replace(/\s+/g, '_') on a heading given as its words and the
\* white-space characters between them: every maximal run of white space
\* becomes one "_"
RECURSIVE ReplaceWhite(_, _)
ReplaceWhite(h, i) ==
    IF i > Len(h) THEN <<>>
    ELSE IF IsWhite(h[i])
         THEN IF i > 1 /\ IsWhite(h[i - 1]) THEN ReplaceWhite(h, i + 1)
              ELSE <<"_">> \o ReplaceWhite(h, i + 1)
         ELSE <<h[i]>> \o ReplaceWhite(h, i + 1)

categoryKeyOf(heading) == ReplaceWhite(heading, 1)

-----------------------------------------------------------------------------
(* calculatePlotScores *)

\* a GeoJSON feature; geometry is an object {type, coordinates} or null,
\* properties is an object or undefined
Geometry(type, coordinates) == Object([type |-> type, coordinates |-> coordinates])
Feature(id, geometry, properties) ==
    [id |-> id, geometry |-> geometry, properties |-> properties]

\* zone.properties || {}
propsOf(zone) ==
    IF zone.properties.t = "object" THEN zone.properties.v ELSE <<>>

\* props[key]: undefined for a key the object does not have
Get(props, key) == IF key \in DOMAIN props THEN props[key] ELSE Undefined

normKeyOf(metric) == "norm_" \o metric.key

\* the zones.forEach of one metric: sum and count of the values that parse
RECURSIVE metricTotals(_, _, _, _)
metricTotals(zs, normKey, i, acc) ==
    IF i > Len(zs) THEN acc
    ELSE LET props == propsOf(zs[i])
             normValue == parseFloat(Get(props, normKey))
         IN  IF ~isNaN(normValue)
             THEN metricTotals(zs, normKey, i + 1,
                      [metricSum |-> RAdd(acc.metricSum, normValue),
                       metricCount |-> acc.metricCount + 1])
             ELSE metricTotals(zs, normKey, i + 1, acc)

\* mutants of metricScoreOf: the subtraction the wrong way round; no inversion
metricScoreOfSignSlip(isNegative, avgValue) ==
    IF isNegative THEN RSub(avgValue, Num(1)) ELSE avgValue

metricScoreOfNoInversion(isNegative, avgValue) == avgValue

metricScoreOf(isNegative, avgValue) ==
    IF isNegative THEN RSub(Num(1), avgValue) ELSE avgValue

\* mutant of metricStep: a metric without data counts as a score of zero
metricStepCountingMissing(zs, metric, acc) ==
    LET normKey == normKeyOf(metric)
        t == metricTotals(zs, normKey, 1, [metricSum |-> Num(0), metricCount |-> 0])
        isNegative == includes(negativeImpactMetrics, normKey)
        metricScore == IF t.metricCount > 0
                       THEN metricScoreOf(isNegative, RDiv(t.metricSum, t.metricCount))
                       ELSE Num(0)
    IN  [entry |-> [score |-> RAdd(acc.entry.score, metricScore),
                    count |-> acc.entry.count + 1,
                    metrics |-> Append(acc.entry.metrics,
                        [name |-> metric.label,
                         score |-> metricScore,
                         isNegative |-> isNegative])],
         totalScore |-> RAdd(acc.totalScore, metricScore),
         totalMetricsCount |-> acc.totalMetricsCount + 1]

\* mutant of metricStep: the metric entered at the head of the metrics list
metricStepPrepending(zs, metric, acc) ==
    LET normKey == normKeyOf(metric)
        t == metricTotals(zs, normKey, 1, [metricSum |-> Num(0), metricCount |-> 0])
    IN  IF t.metricCount > 0
        THEN [entry |-> [score |-> RAdd(acc.entry.score,
                                        metricScoreOf(includes(negativeImpactMetrics, normKey),
                                                      RDiv(t.metricSum, t.metricCount))),
                         count |-> acc.entry.count + 1,
                         metrics |-> <<[name |-> metric.label,
                                        score |-> metricScoreOf(
                                                      includes(negativeImpactMetrics, normKey),
                                                      RDiv(t.metricSum, t.metricCount)),
                                        isNegative |-> includes(negativeImpactMetrics, normKey)]>>
                                     \o acc.entry.metrics],
              totalScore |-> RAdd(acc.totalScore,
                                  metricScoreOf(includes(negativeImpactMetrics, normKey),
                                                RDiv(t.metricSum, t.metricCount))),
              totalMetricsCount |-> acc.totalMetricsCount + 1]
        ELSE acc

\* one pass of category.metrics.forEach; acc holds the category's entry and the
\* two running totals
metricStep(zs, metric, acc) ==
    LET normKey == normKeyOf(metric)
        t == metricTotals(zs, normKey, 1, [metricSum |-> Num(0), metricCount |-> 0])
    IN  IF t.metricCount > 0
        THEN LET avgValue == RDiv(t.metricSum, t.metricCount)
                 isNegative == includes(negativeImpactMetrics, normKey)
                 metricScore == metricScoreOf(isNegative, avgValue)
             IN  [entry |-> [score |-> RAdd(acc.entry.score, metricScore),
                             count |-> acc.entry.count + 1,
                             metrics |-> Append(acc.entry.metrics,
                                 [name |-> metric.label,
                                  score |-> metricScore,
                                  isNegative |-> isNegative])],
                  totalScore |-> RAdd(acc.totalScore, metricScore),
                  totalMetricsCount |-> acc.totalMetricsCount + 1]
        ELSE acc

RECURSIVE metricsLoop(_, _, _, _)
metricsLoop(zs, ms, j, acc) ==
    IF j > Len(ms) THEN acc
    ELSE metricsLoop(zs, ms, j + 1, metricStep(zs, ms[j], acc))

\* the division that ends a category's pass
categoryAverage(entry) ==
    IF entry.count > 0
    THEN [entry EXCEPT !.score = RDiv(entry.score, entry.count)]
    ELSE entry

\* obj[key] = value on an object held as a function
Put(obj, key, value) ==
    [k \in DOMAIN obj \cup {key} |-> IF k = key THEN value ELSE obj[k]]

newCategoryEntry == [score |-> Num(0), count |-> 0, metrics |-> <<>>]

\* mutant of categoryStep: a category without data gets no entry
categoryStepOmittingEmpty(zs, category, acc) ==
    LET categoryKey == categoryKeyOf(category.heading)
        r == metricsLoop(zs, category.metrics, 1,
                 [entry |-> newCategoryEntry,
                  totalScore |-> acc.totalScore,
                  totalMetricsCount |-> acc.totalMetricsCount])
    IN  [categoryScores |-> IF r.entry.count > 0
                            THEN Put(acc.categoryScores, categoryKey, categoryAverage(r.entry))
                            ELSE acc.categoryScores,
         totalScore |-> r.totalScore,
         totalMetricsCount |-> r.totalMetricsCount]

\* one pass of categories.forEach
categoryStep(zs, category, acc) ==
    LET categoryKey == categoryKeyOf(category.heading)
        r == metricsLoop(zs, category.metrics, 1,
                 [entry |-> newCategoryEntry,
                  totalScore |-> acc.totalScore,
                  totalMetricsCount |-> acc.totalMetricsCount])
    IN  [categoryScores |-> Put(acc.categoryScores, categoryKey, categoryAverage(r.entry)),
         totalScore |-> r.totalScore,
         totalMetricsCount |-> r.totalMetricsCount]

RECURSIVE categoriesLoop(_, _, _, _)
categoriesLoop(zs, cats, c, acc) ==
    IF c > Len(cats) THEN acc
    ELSE categoriesLoop(zs, cats, c + 1, categoryStep(zs, cats[c], acc))

\* mutant of overallScoreOf: divides by the number of metrics of the taxonomy
overallScoreOverTaxonomy(totalScore, totalMetricsCount) ==
    IF totalMetricsCount > 0 THEN RDiv(totalScore, 17) ELSE Num(0)

overallScoreOf(totalScore, totalMetricsCount) ==
    IF totalMetricsCount > 0 THEN RDiv(totalScore, totalMetricsCount) ELSE Num(0)

\* mutant of emptyScores: the categories zero-filled
emptyScoresZeroFilled ==
    [overallScore |-> Num(0),
     categoryScores |-> [k \in {categoryKeyOf(categories[c].heading) : c \in 1..Len(categories)}
                            |-> newCategoryEntry]]

emptyScores == [overallScore |-> Num(0), categoryScores |-> <<>>]

calculatePlotScores(zs, cats) ==
    IF Len(zs) = 0 THEN emptyScores
    ELSE LET r == categoriesLoop(zs, cats, 1,
                      [categoryScores |-> <<>>,
                       totalScore |-> Num(0),
                       totalMetricsCount |-> 0])
         IN  [overallScore |-> overallScoreOf(r.totalScore, r.totalMetricsCount),
              categoryScores |-> r.categoryScores]

-----------------------------------------------------------------------------
(* calculateCentroid and pointInPolygon *)

\* the forEach of calculateCentroid: well-formed vertices add to the sums
RECURSIVE centroidSums(_, _, _)
centroidSums(coordinates, i, acc) ==
    IF i >= Length(coordinates) THEN acc
    ELSE IF isArray(At(coordinates, i)) /\ Length(At(coordinates, i)) >= 2
         THEN centroidSums(coordinates, i + 1,
                  [sumX |-> RAdd(acc.sumX, ToNumber(At(At(coordinates, i), 0))),
                   sumY |-> RAdd(acc.sumY, ToNumber(At(At(coordinates, i), 1)))])
         ELSE centroidSums(coordinates, i + 1, acc)

centroidOfRing(coordinates, sums) ==
    ArrV(<<NumV(RDiv(sums.sumX, Length(coordinates))),
           NumV(RDiv(sums.sumY, Length(coordinates)))>>)

\* !feature: null stands where a feature is missing
noFeature(feature) == "geometry" \notin DOMAIN feature

\* null, or [sumX / length, sumY / length] of the outer ring
calculateCentroid(feature) ==
    IF \/ noFeature(feature)
       \/ ~Truthy(feature.geometry)
       \/ feature.geometry.v.type # "Polygon" THEN Null
    ELSE IF \/ ~Truthy(At(feature.geometry.v.coordinates, 0))
            \/ ~isArray(At(feature.geometry.v.coordinates, 0))
            \/ Length(At(feature.geometry.v.coordinates, 0)) = 0
         THEN Null
         ELSE centroidOfRing(At(feature.geometry.v.coordinates, 0),
                  centroidSums(At(feature.geometry.v.coordinates, 0), 0,
                               [sumX |-> Num(0), sumY |-> Num(0)]))

\* mutant of intersect: the crossing taken without the offset xi
intersectWithoutOffset(x, y, xi, yi, xj, yj) ==
    /\ RLt(y, yi) # RLt(y, yj)
    /\ RLt(x, RQuot(RMul(RSub(xj, xi), RSub(y, yi)), RSub(yj, yi)))

\* ((yi > y) !== (yj > y)) && (x < (xj - xi) * (y - yi) / (yj - yi) + xi)
intersect(x, y, xi, yi, xj, yj) ==
    /\ RLt(y, yi) # RLt(y, yj)
    /\ RLt(x, RAdd(RQuot(RMul(RSub(xj, xi), RSub(y, yi)), RSub(yj, yi)), xi))

\* a vertex the loop of pointInPolygon skips
malformedVertex(v) == ~Truthy(v) \/ ~isArray(v) \/ Length(v) < 2

\* mutant of edgeLoop: a malformed vertex ends the test with false
RECURSIVE edgeLoopAborting(_, _, _, _, _)
edgeLoopAborting(point, polygon, i, j, inside) ==
    IF i >= Length(polygon) THEN inside
    ELSE IF malformedVertex(At(polygon, i)) \/ malformedVertex(At(polygon, j))
         THEN FALSE
         ELSE edgeLoopAborting(point, polygon, i + 1, i,
                  inside # intersect(ToNumber(At(point, 0)), ToNumber(At(point, 1)),
                                     ToNumber(At(At(polygon, i), 0)),
                                     ToNumber(At(At(polygon, i), 1)),
                                     ToNumber(At(At(polygon, j), 0)),
                                     ToNumber(At(At(polygon, j), 1))))

\* the for loop of pointInPolygon, i and j counted from 0
RECURSIVE edgeLoop(_, _, _, _, _)
edgeLoop(point, polygon, i, j, inside) ==
    IF i >= Length(polygon) THEN inside
    ELSE IF malformedVertex(At(polygon, i)) \/ malformedVertex(At(polygon, j))
         THEN edgeLoop(point, polygon, i + 1, i, inside)
         ELSE edgeLoop(point, polygon, i + 1, i,
                  inside # intersect(ToNumber(At(point, 0)), ToNumber(At(point, 1)),
                                     ToNumber(At(At(polygon, i), 0)),
                                     ToNumber(At(At(polygon, i), 1)),
                                     ToNumber(At(At(polygon, j), 0)),
                                     ToNumber(At(At(polygon, j), 1))))

pointInPolygon(point, polygon) ==
    IF ~Truthy(point) \/ ~isArray(point) \/ Length(point) < 2 THEN FALSE
    ELSE IF ~Truthy(polygon) \/ ~isArray(polygon) \/ Length(polygon) < 3 THEN FALSE
         ELSE edgeLoop(point, polygon, 0, Length(polygon) - 1, FALSE)

-----------------------------------------------------------------------------
(* calculateGeoJSONArea and calculatePolygonArea *)

\* how a call ended: with a value, or with an exception
Returned(value) == [threw |-> FALSE, value |-> value]
Threw == [threw |-> TRUE, value |-> <<>>]

RAbs(a) == IF a.n < 0 THEN RNeg(a) ELSE a

\* p[0] or p[1] of a vertex read as a number; reading a property of null or
\* undefined is a TypeError (nullish below)
coordinate(p, k) == ToNumber(At(p, k))
nullish(v) == v.t \in {"null", "undefined"}

\* the Shoelace loop: the sum of p1[0] * p2[1] - p2[0] * p1[1]
RECURSIVE shoelace(_, _, _)
shoelace(ring, i, acc) ==
    IF i >= Length(ring) - 1 THEN acc
    ELSE shoelace(ring, i + 1,
             RAdd(acc, RSub(RMul(coordinate(At(ring, i), 0), coordinate(At(ring, i + 1), 1)),
                            RMul(coordinate(At(ring, i + 1), 0), coordinate(At(ring, i), 1)))))

\* the sum of point[1] over the ring
RECURSIVE latitudeSum(_, _, _)
latitudeSum(ring, i, acc) ==
    IF i >= Length(ring) THEN acc
    ELSE latitudeSum(ring, i + 1, RAdd(acc, coordinate(At(ring, i), 1)))

\* The area in square metres is
\*   |area| * (R * pi/180) * (R * cos(centerLat * pi/180) * pi/180) / 2 ;
\* the model keeps the two numbers that determine it: |area|, the absolute
\* Shoelace sum in square degrees, and centerLat in degrees. A sum of areas is a sequence of such
\* terms, the empty sequence being 0.
areaTerm(ring) ==
    [absArea |-> RAbs(shoelace(ring, 0, Num(0))),
     centerLat |-> RDiv(latitudeSum(ring, 0, Num(0)), Length(ring))]

calculatePolygonArea(polygonCoords) ==
    IF ~Truthy(polygonCoords) \/ Length(polygonCoords) = 0 THEN Returned(<<>>)
    ELSE IF ~Truthy(At(polygonCoords, 0)) \/ Length(At(polygonCoords, 0)) < 4
         THEN Returned(<<>>)
         ELSE IF \E i \in 0..(Length(At(polygonCoords, 0)) - 1) :
                     nullish(At(At(polygonCoords, 0), i))
              THEN Threw
              ELSE Returned(<<areaTerm(At(polygonCoords, 0))>>)

\* mutant of polygonsArea: the area of the first polygon alone
polygonsAreaFirstOnly(coords, i, acc) ==
    IF Length(coords) = 0 THEN Returned(acc)
    ELSE calculatePolygonArea(At(coords, 0))

\* area += calculatePolygonArea(polygon) for the polygons from index i on
RECURSIVE polygonsArea(_, _, _)
polygonsArea(coords, i, acc) ==
    IF i >= Length(coords) THEN Returned(acc)
    ELSE IF calculatePolygonArea(At(coords, i)).threw THEN Threw
         ELSE polygonsArea(coords, i + 1, acc \o calculatePolygonArea(At(coords, i)).value)

calculateGeoJSONArea(feature) ==
    IF \/ noFeature(feature)
       \/ ~Truthy(feature.geometry)
       \/ ~Truthy(feature.geometry.v.coordinates) THEN Returned(<<>>)
    ELSE IF feature.geometry.v.type = "Polygon"
         THEN calculatePolygonArea(feature.geometry.v.coordinates)
         ELSE IF feature.geometry.v.type = "MultiPolygon"
              THEN polygonsArea(feature.geometry.v.coordinates, 0, <<>>)
              ELSE Returned(<<>>)

-----------------------------------------------------------------------------
(* SimpleIsochrone: selection of datazones and display of the scores *)

\* the keys of the taxonomy's metrics
statKeys(cats) ==
    UNION {{cats[c].metrics[m].key : m \in 1..Len(cats[c].metrics)} : c \in 1..Len(cats)}

\* stats[key] after the zones.forEach: total and count of the values at key
\* that parseFloat does not turn into NaN
RECURSIVE statTotals(_, _, _, _)
statTotals(zs, key, i, acc) ==
    IF i > Len(zs) THEN acc
    ELSE IF ~isNaN(parseFloat(Get(propsOf(zs[i]), key)))
         THEN statTotals(zs, key, i + 1,
                  [total |-> RAdd(acc.total, parseFloat(Get(propsOf(zs[i]), key))),
                   count |-> acc.count + 1])
         ELSE statTotals(zs, key, i + 1, acc)

\* the stats object of calculateDatazoneStatistics
statsOf(zs, cats) ==
    [key \in statKeys(cats) |-> statTotals(zs, key, 1, [total |-> Num(0), count |-> 0])]

\* what #isochrone-status shows
Status(kind, name, count, mins, scores, statistics) ==
    [kind |-> kind, name |-> name, count |-> count, minutes |-> mins, scores |-> scores,
     stats |-> statistics]

defaultStatus == Status("default", "", 0, 0, emptyScores, <<>>)
selectedStatus(name) == Status("selected", name, 0, 0, emptyScores, <<>>)
noDatazonesStatus == Status("none", "", 0, 0, emptyScores, <<>>)

\* calculateDatazoneStatistics: the status after scoring this.datazonesWithinIsochrone
calculateDatazoneStatistics(within, mins) ==
    IF Len(within) = 0 THEN noDatazonesStatus
    ELSE Status("results", "", Len(within), mins, calculatePlotScores(within, categories),
                statsOf(within, categories))

\* the callback of datazones.filter
centroidWithin(datazone, isochronePolygon) ==
    IF ~Truthy(datazone.geometry) \/ ~Truthy(datazone.geometry.v.coordinates) THEN FALSE
    ELSE IF ~Truthy(calculateCentroid(datazone)) THEN FALSE
         ELSE pointInPolygon(calculateCentroid(datazone), isochronePolygon)

filterWithin(candidates, isochronePolygon) ==
    SelectSeq(candidates, LAMBDA dz : centroidWithin(dz, isochronePolygon))

\* the end of analyzeDatazonesWithinIsochrone: the filtered list is stored and
\* calculateDatazoneStatistics shows its statistics
selectionResult(filtered, mins) ==
    [within |-> filtered, status |-> calculateDatazoneStatistics(filtered, mins)]

\* analyzeDatazonesWithinIsochrone(isochroneFeature) with `candidates` the
\* result of querySourceFeatures('datazones'); the 'datazones' source is on the
\* map before any feature can be selected. Gives the new
\* datazonesWithinIsochrone and status.
analyzeDatazonesWithinIsochrone(isochroneFeature, candidates, within, shown, mins) ==
    IF Len(candidates) = 0 THEN [within |-> within, status |-> shown]
    ELSE IF \/ ~Truthy(At(isochroneFeature.geometry.v.coordinates, 0))
            \/ ~isArray(At(isochroneFeature.geometry.v.coordinates, 0))
         THEN [within |-> <<>>, status |-> shown]
         ELSE selectionResult(filterWithin(candidates,
                                  At(isochroneFeature.geometry.v.coordinates, 0)), mins)

\* the part of getIso after the two awaits; the 'iso' source is on the map
\* since setupMapLayers
afterFetch(data, candidates, within, shown, mins) ==
    IF Truthy(data.features) /\ Length(data.features) > 0
    THEN analyzeDatazonesWithinIsochrone(At(data.features, 0), candidates, within, shown, mins)
    ELSE [within |-> within, status |-> shown]

\* the vertex mean handleFeatureSelection takes of a Polygon's outer ring
RECURSIVE ringSum(_, _, _)
ringSum(polygonCoords, k, i) ==
    IF i >= Length(polygonCoords) THEN Num(0)
    ELSE RAdd(ToNumber(At(At(polygonCoords, i), k)), ringSum(polygonCoords, k, i + 1))

\* the coordinates handleFeatureSelection gives the marker
selectionCoordinates(feature) ==
    IF feature.geometry.v.type = "Point" THEN feature.geometry.v.coordinates
    ELSE ArrV(<<NumV(RDiv(ringSum(At(feature.geometry.v.coordinates, 0), 0, 0),
                          Length(At(feature.geometry.v.coordinates, 0)))),
                NumV(RDiv(ringSum(At(feature.geometry.v.coordinates, 0), 1, 0),
                          Length(At(feature.geometry.v.coordinates, 0))))>>)

-----------------------------------------------------------------------------
(* The world of the model: selectable features, datazones, the provider *)

MaxRequests == 2
MaxSlider == 10

initialMinutes == 15
sliderMin == 5
sliderStep == 5

\* the slider positions the model moves to
SliderValues == {m \in sliderMin..MaxSlider : (m - sliderMin) % sliderStep = 0}

Pt(x, y) == ArrV(<<NumV(Num(x)), NumV(Num(y))>>)

\* the closed ring of the axis-parallel square with corners (x1,y1), (x2,y2)
Square(x1, y1, x2, y2) ==
    ArrV(<<ArrV(<<NumV(x1), NumV(y1)>>), ArrV(<<NumV(x2), NumV(y1)>>),
           ArrV(<<NumV(x2), NumV(y2)>>), ArrV(<<NumV(x1), NumV(y2)>>),
           ArrV(<<NumV(x1), NumV(y1)>>)>>)

SquareAt(x1, y1, x2, y2) == Square(Num(x1), Num(y1), Num(x2), Num(y2))

\* a railway station and an empty land
Station ==
    Feature(1, Geometry("Point", Pt(0, 0)), Object([k \in {"name"} |-> StrV(<<"Central">>)]))
Land ==
    Feature(2, Geometry("Polygon", ArrV(<<SquareAt(10, 0, 14, 4)>>)),
            Object([k \in {"name"} |-> StrV(<<"Yard">>)]))
Selectable == {Station, Land}

\* datazones: two beside the station, one on the land, one twenty degrees north
Zone1 ==
    Feature(11, Geometry("Polygon", ArrV(<<SquareAt(0, 0, 2, 2)>>)),
            Object([k \in {"HEALTH OUTCOMES", "norm_HEALTH OUTCOMES"} |->
                      IF k = "HEALTH OUTCOMES" THEN NumV(Num(12)) ELSE NumV(Rat(2, 5))]))
Zone2 ==
    Feature(12, Geometry("Polygon", ArrV(<<SquareAt(1, 1, 3, 3)>>)),
            Object([k \in {"norm_EARNINGS"} |-> StrV(<<"0", ".", "7">>)]))
Zone3 ==
    Feature(13, Geometry("Polygon", ArrV(<<SquareAt(10, 0, 12, 2)>>)),
            Object([k \in {"norm_CHILD BENEFIT"} |-> NumV(Num(1))]))
Zone4 ==
    Feature(14, Geometry("Polygon", ArrV(<<SquareAt(-1, 19, 1, 21)>>)), Undefined)

\* what querySourceFeatures('datazones') can return: nothing while no tile of
\* the source is in view, or the zones of the tiles in view
Views == {<<>>, <<Zone1, Zone2, Zone3, Zone4>>}

\* The isochrone provider. The walk reaches minutes/5 degrees in each
\* direction; the answer is one Polygon feature, or that polygon with a second
\* one twenty degrees north, as two contour features or as one MultiPolygon.
\* The provider can also answer with a feature whose geometry has no ring,
\* with an empty feature collection, or with an error object that has no
\* features at all; or the fetch is rejected (IsoRejected below).
Shapes == {"polygon", "contours", "multipolygon", "nopolygon", "nofeatures", "error"}

Reach(mins) == Num(mins \div 5)

NearRing(lngLat, mins) ==
    Square(RSub(ToNumber(At(lngLat, 0)), Reach(mins)), RSub(ToNumber(At(lngLat, 1)), Reach(mins)),
           RAdd(ToNumber(At(lngLat, 0)), Reach(mins)), RAdd(ToNumber(At(lngLat, 1)), Reach(mins)))

FarRing(lngLat, mins) ==
    NearRing(ArrV(<<At(lngLat, 0), NumV(RAdd(ToNumber(At(lngLat, 1)), Num(20)))>>), mins)

Contour(geometry) == Feature(0, geometry, Object(<<>>))

IsochroneResponse(lngLat, mins, shape) ==
    CASE shape = "polygon" ->
            [features |-> ArrV(<<Contour(Geometry("Polygon", ArrV(<<NearRing(lngLat, mins)>>)))>>)]
      [] shape = "contours" ->
            [features |-> ArrV(<<Contour(Geometry("Polygon", ArrV(<<NearRing(lngLat, mins)>>))),
                                 Contour(Geometry("Polygon", ArrV(<<FarRing(lngLat, mins)>>)))>>)]
      [] shape = "nopolygon" ->
            [features |-> ArrV(<<Contour(Geometry("Polygon", ArrV(<<>>)))>>)]
      [] shape = "nofeatures" -> [features |-> ArrV(<<>>)]
      [] shape = "error" -> [features |-> Undefined]
      [] OTHER ->
            [features |-> ArrV(<<Contour(Geometry("MultiPolygon",
                                    ArrV(<<ArrV(<<NearRing(lngLat, mins)>>),
                                           ArrV(<<FarRing(lngLat, mins)>>)>>)))>>)]

emptyCollection == [features |-> ArrV(<<>>)]

-----------------------------------------------------------------------------
(* The handler as a state machine *)

IsoIdle ==
    /\ minutes = initialMinutes
    /\ marker = Undefined
    /\ isoData = emptyCollection
    /\ datazones = <<>>
    /\ datazonesWithinIsochrone = <<>>
    /\ status = defaultStatus
    /\ pending = {}
    /\ nextReq = 0
    /\ answered = {}
    /\ thrown = FALSE

ScoreIdle ==
    /\ zones = <<>>
    /\ scoreData = <<>>
    /\ stats = <<>>

GeomIdle ==
    /\ geoFeature = Null
    /\ geoPoint = Null
    /\ insideResult = <<>>
    /\ centroidResult = <<>>
    /\ areaResult = <<>>

BoxIdle ==
    /\ boxShapes = <<>>
    /\ boxesResult = <<>>

RatingIdle ==
    /\ scoreInputs = <<>>
    /\ scoreComponents = <<>>

\* the map pages before MapInteractions.init
ClickIdle ==
    /\ clickHandlers = <<>>
    /\ registered = <<>>
    /\ featureStates = <<>>
    /\ selectedIds = <<>>
    /\ invoked = <<>>
    /\ lastStack = <<>>
    /\ lastClicked = <<>>
    /\ passedOn = <<>>
    /\ camera = <<>>

\* the accessibility view before its page has loaded
AccessIdle ==
    /\ listeners = 0
    /\ toggleButtons = 0
    /\ styleElements = 0
    /\ checked = FALSE
    /\ called = <<>>
    /\ geojsonData = <<>>
    /\ selectedLandId = 0
    /\ landResults = <<>>
    /\ isochronesVisible = FALSE
    /\ accessSource = <<>>
    /\ isoLayer = FALSE
    /\ highlight = <<>>
    /\ resultsShown = <<>>
    /\ scoreShown = <<>>
    /\ toggleText = ""
    /\ generating = {}
    /\ generated = 0
    /\ dispatched = 0
    /\ alerted = ""

Init ==
    /\ IsoIdle
    /\ ScoreIdle
    /\ ClickIdle
    /\ RatingIdle
    /\ GeomIdle
    /\ BoxIdle
    /\ AccessIdle

\* getIso up to its first await: the request carries the marker's position and
\* this.minutes as they are now
startRequest(lngLat, mins) ==
    /\ nextReq < MaxRequests
    /\ nextReq' = nextReq + 1
    /\ pending' = pending \cup {[id |-> nextReq + 1, lngLat |-> lngLat, minutes |-> mins]}

\* a click on a station or a land: handleFeatureSelection(feature)
HandleFeatureSelection(feature) ==
    /\ marker' = selectionCoordinates(feature)
    /\ status' = selectedStatus(Get(propsOf(feature), "name").v)
    /\ startRequest(marker', minutes)
    /\ thrown' = FALSE
    /\ UNCHANGED <<minutes, isoData, datazones, datazonesWithinIsochrone, answered>>
    /\ UNCHANGED otherThanIso

\* mutant of SliderInput: the request is made whether or not the marker has
\* a position
SliderInputAlwaysRequesting(m) ==
    /\ minutes' = m
    /\ startRequest(marker, m)
    /\ thrown' = FALSE
    /\ UNCHANGED <<marker, isoData, datazones, datazonesWithinIsochrone, status, answered>>
    /\ UNCHANGED otherThanIso

\* the slider's input listener
SliderInput(m) ==
    /\ minutes' = m
    /\ IF Truthy(marker)
       THEN startRequest(marker, m)
       ELSE UNCHANGED <<pending, nextReq>>
    /\ thrown' = FALSE
    /\ UNCHANGED <<marker, isoData, datazones, datazonesWithinIsochrone, status, answered>>
    /\ UNCHANGED otherThanIso

\* the provider answers request r: getIso runs on from its awaits
IsoResponse(r, shape) ==
    /\ r \in pending
    /\ pending' = pending \ {r}
    /\ isoData' = IsochroneResponse(r.lngLat, r.minutes, shape)
    /\ \E res \in {afterFetch(isoData', datazones, datazonesWithinIsochrone, status, minutes)} :
          /\ datazonesWithinIsochrone' = res.within
          /\ status' = res.status
    /\ thrown' = FALSE
    /\ answered' = answered \cup {r.id}
    /\ UNCHANGED <<minutes, marker, datazones, nextReq>>
    /\ UNCHANGED otherThanIso

\* the fetch of request r is rejected: the await in getIso throws, nothing
\* after it runs, and no caller catches the rejection of getIso's promise
IsoRejected(r) ==
    /\ r \in pending
    /\ pending' = pending \ {r}
    /\ thrown' = TRUE
    /\ UNCHANGED <<minutes, marker, isoData, datazones, datazonesWithinIsochrone,
                   status, nextReq, answered>>
    /\ UNCHANGED otherThanIso

\* the map is panned or zoomed (also by the flyTo of a click), or tiles load:
\* querySourceFeatures sees other datazones
MapMoved(view) ==
    /\ datazones # view
    /\ datazones' = view
    /\ thrown' = FALSE
    /\ UNCHANGED <<minutes, marker, isoData, datazonesWithinIsochrone, status,
                   pending, nextReq, answered>>
    /\ UNCHANGED otherThanIso

Next ==
    \/ \E f \in Selectable : HandleFeatureSelection(f)
    \/ \E m \in SliderValues : SliderInput(m)
    \/ \E r \in pending : \E shape \in Shapes : IsoResponse(r, shape)
    \/ \E r \in pending : IsoRejected(r)
    \/ \E view \in Views : MapMoved(view)

Spec == Init /\ [][Next]_vars

-----------------------------------------------------------------------------
(* Inputs of the scorer *)

MaxZones == 3

NoGeometry == Geometry("Polygon", ArrV(<<>>))

\* one normalized key with 0.4, 1, "0.7", "n/a", 1.5 (outside the unit
\* interval) or "Infinity"
ScoreInputs == {
    <<"norm_HEALTH OUTCOMES", NumV(Rat(2, 5))>>,
    <<"norm_HEALTH OUTCOMES", NumV(Num(1))>>,
    <<"norm_HEALTH OUTCOMES", StrV(<<"n", "/", "a">>)>>,
    <<"norm_CHILD BENEFIT", StrV(<<"0", ".", "7">>)>>,
    <<"norm_CHILD BENEFIT", NumV(Rat(3, 2))>>,
    <<"norm_EARNINGS", StrV(<<"0", ".", "7">>)>>,
    <<"norm_EARNINGS", NumV(Num(1))>>,
    <<"norm_EARNINGS", StrV(InfinityChars)>> }

\* a zone carrying raw indicators beside normalized ones, one of them in a
\* third category
MixedProps ==
    Object([k \in {"HEALTH OUTCOMES", "norm_HEALTH OUTCOMES", "norm_ENERGY CONSUMPTION"} |->
              CASE k = "HEALTH OUTCOMES" -> NumV(Num(12))
                [] k = "norm_HEALTH OUTCOMES" -> StrV(<<" ", "0", ".", "2", "5">>)
                [] OTHER -> NumV(Rat(1, 2))])

\* zone.properties: missing, one normalized key, or the mixed object
PropsSet ==
    {Undefined, MixedProps}
        \cup {Object([k \in {kv[1]} |-> kv[2]]) : kv \in ScoreInputs}

ScoreZone(props) == Feature(0, NoGeometry, props)

-----------------------------------------------------------------------------
(* The geometry functions as a state machine: a caller measures a feature    *)
(* and a point, then measures again each time a vertex has been added to the *)
(* feature's outer ring.                                                     *)

MaxRing == 4

\* vertices: the corners of a square, null, and an array too short
RingVertices == {Pt(0, 0), Pt(4, 0), Pt(4, 4), Pt(0, 4), Null, ArrV(<<NumV(Num(1))>>)}

\* points: inside and outside the square, level with an edge, and malformed
TestPoints == {Pt(1, 2), Pt(3, 1), Pt(-1, 2), Pt(-1, 0), Null, ArrV(<<NumV(Num(1))>>)}

PolygonOf(rings) == Feature(0, Geometry("Polygon", ArrV(rings)), Undefined)

KnownSquare == ArrV(<<Pt(0, 0), Pt(0, 10), Pt(10, 10), Pt(10, 0), Pt(0, 0)>>)
Hole == SquareAt(4, 4, 6, 6)

\* feature and point at the start: a Polygon whose outer ring is still empty,
\* with and without a hole; the known square; and features without a usable
\* outer ring
GeomInputs ==
    {<<PolygonOf(<<ArrV(<<>>)>>), p>> : p \in TestPoints}
      \cup {<<PolygonOf(<<ArrV(<<>>), Hole>>), Pt(1, 2)>>}
      \cup {<<PolygonOf(<<KnownSquare>>), p>> : p \in {Pt(5, 5), Pt(15, 15)}}
      \cup {<<PolygonOf(<<KnownSquare, Hole>>), Pt(5, 5)>>}
      \cup {<<f, Pt(1, 2)>> : f \in
               {Null,
                Feature(0, Null, Undefined),
                PolygonOf(<<>>),
                Feature(0, Geometry("LineString", KnownSquare), Undefined),
                Feature(0, Geometry("MultiPolygon",
                               ArrV(<<ArrV(<<KnownSquare>>), ArrV(<<Hole>>)>>)), Undefined),
                Feature(0, Geometry("MultiPolygon",
                               ArrV(<<ArrV(<<KnownSquare, Hole>>),
                                      ArrV(<<SquareAt(20, 0, 23, 2)>>),
                                      ArrV(<<ArrV(<<Pt(0, 0), Pt(4, 0), Pt(0, 0)>>)>>),
                                      ArrV(<<>>)>>)), Undefined),
                Feature(0, Geometry("MultiPolygon",
                               ArrV(<<ArrV(<<KnownSquare>>),
                                      ArrV(<<ArrV(<<Pt(0, 0), Null, Pt(4, 4), Pt(0, 0)>>)>>)>>)),
                        Undefined)}}

\* feature.geometry.coordinates[0] as the callers of pointInPolygon take it
outerRingOf(feature) ==
    IF noFeature(feature) \/ ~Truthy(feature.geometry) THEN Undefined
    ELSE At(feature.geometry.v.coordinates, 0)

\* the feature with vertex v added at the end of its outer ring
withVertex(feature, v) ==
    [feature EXCEPT !.geometry.v.coordinates.v[1].v = Append(@, v)]

GeomInit ==
    /\ \E input \in GeomInputs : geoFeature = input[1] /\ geoPoint = input[2]
    /\ insideResult = <<>>
    /\ centroidResult = <<>>
    /\ areaResult = <<>>
    /\ IsoIdle
    /\ ScoreIdle
    /\ ClickIdle
    /\ RatingIdle
    /\ BoxIdle
    /\ AccessIdle

\* the three functions applied to the current feature and point
Measure ==
    /\ insideResult = <<>>
    /\ insideResult' = <<pointInPolygon(geoPoint, outerRingOf(geoFeature))>>
    /\ centroidResult' = <<calculateCentroid(geoFeature)>>
    /\ areaResult' = <<calculateGeoJSONArea(geoFeature)>>
    /\ UNCHANGED <<geoFeature, geoPoint>>
    /\ UNCHANGED otherThanGeom

\* one more vertex on the outer ring, and the functions applied again
AddVertex(v) ==
    /\ insideResult # <<>>
    /\ ~noFeature(geoFeature) /\ Truthy(geoFeature.geometry)
    /\ geoFeature.geometry.v.type = "Polygon"
    /\ isArray(outerRingOf(geoFeature))
    /\ Length(outerRingOf(geoFeature)) < MaxRing
    /\ geoFeature' = withVertex(geoFeature, v)
    /\ insideResult' = <<pointInPolygon(geoPoint, outerRingOf(geoFeature'))>>
    /\ centroidResult' = <<calculateCentroid(geoFeature')>>
    /\ areaResult' = <<calculateGeoJSONArea(geoFeature')>>
    /\ UNCHANGED geoPoint
    /\ UNCHANGED otherThanGeom

GeomNext ==
    \/ Measure
    \/ \E v \in RingVertices : AddVertex(v)

SpecGeometry == GeomInit /\ [][GeomNext]_vars

-----------------------------------------------------------------------------
(* The scorer as a state machine: a caller scores a zone array, then scores  *)
(* the array again each time a zone has been added to it.                    *)

ScoreInit ==
    /\ zones \in {<<>>} \cup {<<ScoreZone(p)>> : p \in PropsSet}
    /\ scoreData = <<>>
    /\ stats = <<>>
    /\ IsoIdle
    /\ ClickIdle
    /\ RatingIdle
    /\ GeomIdle
    /\ BoxIdle
    /\ AccessIdle

\* the statistics and the scores of the current array
ScorePlot ==
    /\ scoreData = <<>>
    /\ scoreData' = <<calculatePlotScores(zones, categories)>>
    /\ stats' = <<statsOf(zones, categories)>>
    /\ UNCHANGED <<zones>>
    /\ UNCHANGED otherThanScore

\* one more zone, and the array scored again
ScoreAgain(p) ==
    /\ scoreData # <<>>
    /\ Len(zones) < MaxZones
    /\ zones' = Append(zones, ScoreZone(p))
    /\ scoreData' = <<calculatePlotScores(zones', categories)>>
    /\ stats' = <<statsOf(zones', categories)>>
    /\ UNCHANGED otherThanScore

ScoreNext ==
    \/ ScorePlot
    \/ \E p \in PropsSet : ScoreAgain(p)

SpecScore == ScoreInit /\ [][ScoreNext]_vars

-----------------------------------------------------------------------------
(* What the claims about the scorer speak of, stated over sets rather than  *)
(* by the scorer's loops                                                     *)

\* the positions <<c, j>> of the taxonomy's metrics
MetricPositions ==
    UNION {{<<c, j>> : j \in 1..Len(categories[c].metrics)} : c \in 1..Len(categories)}

MetricAt(p) == categories[p[1]].metrics[p[2]]

\* the zones of zs that have a parseable value at key
ZonesWithValue(zs, key) ==
    {i \in 1..Len(zs) : ~isNaN(parseFloat(Get(propsOf(zs[i]), key)))}

RECURSIVE SumValues(_, _, _)
SumValues(zs, key, S) ==
    IF S = {} THEN Num(0)
    ELSE LET i == CHOOSE x \in S : TRUE
         IN  RAdd(parseFloat(Get(propsOf(zs[i]), key)), SumValues(zs, key, S \ {i}))

\* v: the average of the norm_ values over the zones that have one
NormAverage(zs, m) ==
    LET S == ZonesWithValue(zs, "norm_" \o m.key)
    IN  RDiv(SumValues(zs, "norm_" \o m.key, S), Cardinality(S))

NegativeImpactKeys == {
    "HEALTH OUTCOMES", "CHILDREN IN FAMILIES WITH LIMITED RESOURCES", "CHILD BENEFIT",
    "INDEX OF MULTIPLE DEPRIVATION", "ENERGY CONSUMPTION",
    "GEOGRAPHIC ACCESS TO SERVICES INDICATOR" }

ExpectedMetricScore(zs, m) ==
    IF m.key \in NegativeImpactKeys
    THEN RSub(Num(1), NormAverage(zs, m))
    ELSE NormAverage(zs, m)

\* the metrics that had data, of the whole taxonomy and of one category
Contributing(zs) ==
    {p \in MetricPositions : ZonesWithValue(zs, "norm_" \o MetricAt(p).key) # {}}
ContributingIn(zs, c) == {p \in Contributing(zs) : p[1] = c}

RECURSIVE SumScores(_, _)
SumScores(zs, P) ==
    IF P = {} THEN Num(0)
    ELSE LET p == CHOOSE x \in P : TRUE
         IN  RAdd(ExpectedMetricScore(zs, MetricAt(p)), SumScores(zs, P \ {p}))

MeanScore(zs, P) == RDiv(SumScores(zs, P), Cardinality(P))

CategoryKeys == {
    <<"Eradicating", "_", "Child", "_", "Poverty">>,
    <<"Growing", "_", "the", "_", "Economy">>,
    <<"Tackling", "_", "the", "_", "Climate", "_", "Emergency">>,
    <<"Ensuring", "_", "High", "_", "Quality", "_", "and", "_",
      "Sustainable", "_", "Public", "_", "Services">> }

KeyOfCategory(c) ==
    CASE c = 1 -> <<"Eradicating", "_", "Child", "_", "Poverty">>
      [] c = 2 -> <<"Growing", "_", "the", "_", "Economy">>
      [] c = 3 -> <<"Tackling", "_", "the", "_", "Climate", "_", "Emergency">>
      [] OTHER -> <<"Ensuring", "_", "High", "_", "Quality", "_", "and", "_",
                    "Sustainable", "_", "Public", "_", "Services">>

Scored == scoreData # <<>>
Result == scoreData[1]

InUnit(r) == RLe(Num(0), r) /\ RLe(r, Num(1))

\* the mean of the category scores of the categories that had data
RECURSIVE SumCategoryScores(_, _)
SumCategoryScores(cs, K) ==
    IF K = {} THEN Num(0)
    ELSE LET k == CHOOSE x \in K : TRUE
         IN  RAdd(cs[k].score, SumCategoryScores(cs, K \ {k}))

MeanOfCategoryScores(cs) ==
    LET K == {k \in DOMAIN cs : cs[k].count > 0}
    IN  RDiv(SumCategoryScores(cs, K), Cardinality(K))

-----------------------------------------------------------------------------
(* Claims about calculatePlotScores, checked under SpecScore *)

\* C1: for a non-empty zone array, overallScore is the unweighted mean of the
\* metric scores of all metrics, across the four categories, that had at least
\* one zone with a parseable norm_ value (not the mean of the category scores).
C1_OverallIsMeanOfMetricScores ==
    (Scored /\ Len(zones) > 0 /\ Contributing(zones) # {})
        => Result.overallScore = MeanScore(zones, Contributing(zones))

\* a result whose overall score differs from the mean of its category scores:
\* one category has two contributing metrics, another has one
C1_Witness ==
    /\ Scored /\ Len(zones) > 0
    /\ Cardinality(ContributingIn(zones, 1)) = 2
    /\ Cardinality(ContributingIn(zones, 2)) = 1
    /\ Result.overallScore = MeanScore(zones, Contributing(zones))
    /\ Result.overallScore # MeanOfCategoryScores(Result.categoryScores)

\* C2: every category's score is the unweighted mean of the metric scores of
\* only those of its metrics that had data; a metric with no parseable value in
\* any zone adds nothing to the category's count.
C2_CategoryIsMeanOfItsMetricsWithData ==
    (Scored /\ Len(zones) > 0) =>
        \A c \in 1..Len(categories) :
            LET P == ContributingIn(zones, c)
                e == Result.categoryScores[KeyOfCategory(c)]
            IN  /\ e.count = Cardinality(P)
                /\ P # {} => e.score = MeanScore(zones, P)

\* the scenario of the specification: three zones, one of them with
\* norm_HEALTH OUTCOMES = 0.4, no other data in that category
C2_Witness ==
    /\ Scored /\ Len(zones) = 3
    /\ \E i \in 1..3 :
          /\ Get(propsOf(zones[i]), "norm_HEALTH OUTCOMES") = NumV(Rat(2, 5))
          /\ \A j \in (1..3) \ {i} : "norm_HEALTH OUTCOMES" \notin DOMAIN propsOf(zones[j])
    /\ ContributingIn(zones, 1) = {<<1, 1>>}
    /\ LET e == Result.categoryScores[KeyOfCategory(1)]
       IN  /\ e.count = 1
           /\ e.score = Rat(3, 5)
           /\ e.metrics[1].score = Rat(3, 5)

\* every parseable norm_ value of the zones lies in [0,1]
NormValuesInUnit(zs) ==
    \A p \in MetricPositions : \A i \in ZonesWithValue(zs, "norm_" \o MetricAt(p).key) :
        InUnit(parseFloat(Get(propsOf(zs[i]), "norm_" \o MetricAt(p).key)))

\* C3: with all norm_ values in [0,1], every metric score, every category
\* score and the overall score lie in [0,1]; with no data at all the overall
\* score is exactly 0.
C3_ScoresInUnitInterval ==
    Scored =>
        /\ NormValuesInUnit(zones) =>
              /\ InUnit(Result.overallScore)
              /\ \A k \in DOMAIN Result.categoryScores :
                    /\ InUnit(Result.categoryScores[k].score)
                    /\ \A x \in 1..Len(Result.categoryScores[k].metrics) :
                          InUnit(Result.categoryScores[k].metrics[x].score)
        /\ Contributing(zones) = {} => Result.overallScore = Num(0)

\* a negative-impact metric at the end of the interval beside a positive one
C3_Witness ==
    /\ Scored /\ NormValuesInUnit(zones)
    /\ Cardinality(Contributing(zones)) >= 2
    /\ \E k \in DOMAIN Result.categoryScores :
          /\ Result.categoryScores[k].count > 0
          /\ Result.categoryScores[k].metrics[1].isNegative
          /\ Result.categoryScores[k].metrics[1].score = Num(0)
    /\ RLt(Num(0), Result.overallScore)

\* the entry of metric m in the result, if it has one
EntriesOf(res, c, m) ==
    LET ms == res.categoryScores[KeyOfCategory(c)].metrics
    IN  {ms[x] : x \in {y \in 1..Len(ms) : ms[y].name = m.label}}

C4_ScoreFromAverage(zs, res) ==
    Len(zs) > 0 =>
        \A p \in MetricPositions :
            LET m == MetricAt(p)
            IN  IF p \in Contributing(zs)
                THEN EntriesOf(res, p[1], m) =
                        {[name |-> m.label,
                          score |-> ExpectedMetricScore(zs, m),
                          isNegative |-> m.key \in NegativeImpactKeys]}
                ELSE EntriesOf(res, p[1], m) = {}

\* between two scorings, a metric whose normalized average rose
C4_Monotone(zs1, res1, zs2, res2) ==
    \A p \in Contributing(zs1) \cap Contributing(zs2) :
        LET m == MetricAt(p)
            s1 == (CHOOSE e \in EntriesOf(res1, p[1], m) : TRUE).score
            s2 == (CHOOSE e \in EntriesOf(res2, p[1], m) : TRUE).score
        IN  RLt(NormAverage(zs1, m), NormAverage(zs2, m)) =>
                IF m.key \in NegativeImpactKeys THEN RLt(s2, s1) ELSE RLt(s1, s2)

\* C4: the score of a metric with data is 1 - v for the six negative-impact
\* metrics and v otherwise, v being the average of the norm_ values present;
\* so a higher average gives a strictly higher score for a positive-impact
\* metric and a strictly lower one for a negative-impact metric.
C4_InversionAndMonotonicity ==
    [][ /\ Scored' => C4_ScoreFromAverage(zones', Result')
        /\ (Scored /\ Scored' /\ Len(zones) > 0) =>
              C4_Monotone(zones, Result, zones', Result')
        /\ \A p \in MetricPositions :
              includes(negativeImpactMetrics, normKeyOf(MetricAt(p)))
                  <=> MetricAt(p).key \in NegativeImpactKeys ]_vars

\* a negative-impact metric scored 1 - 0.4 beside a positive one scored 0.7
C4_Witness ==
    /\ Scored /\ Len(zones) > 0
    /\ NormAverage(zones, MetricAt(<<1, 1>>)) = Rat(2, 5)
    /\ [name |-> "Health Outcomes", score |-> Rat(3, 5), isNegative |-> TRUE]
          \in EntriesOf(Result, 1, MetricAt(<<1, 1>>))
    /\ [name |-> "Earnings", score |-> Rat(7, 10), isNegative |-> FALSE]
          \in EntriesOf(Result, 2, MetricAt(<<2, 5>>))

\* C5: an empty zones array gives exactly overallScore = 0 and an empty
\* categoryScores mapping, with no category key.
C5_EmptyZonesGiveEmptyScores ==
    (Scored /\ Len(zones) = 0) =>
        /\ Result.overallScore = Num(0)
        /\ DOMAIN Result.categoryScores = {}
        /\ DOMAIN Result = {"overallScore", "categoryScores"}

C5_Witness == Scored /\ Len(zones) = 0 /\ Result.overallScore = Num(0)

\* C6: for a non-empty zone array categoryScores has an entry for every
\* category of the taxonomy; a category with no data has score 0 and count 0.
C6_EveryCategoryPresent ==
    (Scored /\ Len(zones) > 0) =>
        /\ DOMAIN Result.categoryScores = CategoryKeys
        /\ \A c \in 1..Len(categories) :
              ContributingIn(zones, c) = {} =>
                  /\ Result.categoryScores[KeyOfCategory(c)].score = Num(0)
                  /\ Result.categoryScores[KeyOfCategory(c)].count = 0

\* zones with data in the first category only: the other three are present
C6_Witness ==
    /\ Scored /\ Len(zones) > 0
    /\ ContributingIn(zones, 1) # {}
    /\ \A c \in 2..4 : ContributingIn(zones, c) = {}
    /\ DOMAIN Result.categoryScores = CategoryKeys
    /\ Result.categoryScores[KeyOfCategory(3)].count = 0

-----------------------------------------------------------------------------
(* Claims about the selection of datazones *)

\* a step in which a response of the provider was handled (a rejected fetch
\* leaves with an exception instead)
Responded == pending' # pending /\ pending' \subseteq pending /\ ~thrown'

\* the elements of a list
Elements(list) == {list[i] : i \in 1..Len(list)}

\* the outer ring of the first feature of the isochrone now on the map
OuterRingOf(data) == At(At(data.features, 0).geometry.v.coordinates, 0)

\* the isochrone on the map is a single Polygon
ValidPolygon(data) ==
    /\ Length(data.features) > 0
    /\ At(data.features, 0).geometry.v.type = "Polygon"

\* the centroid of the zone lies inside the ring by the point-in-polygon test
CentroidInside(zone, ring) ==
    /\ Truthy(calculateCentroid(zone))
    /\ pointInPolygon(calculateCentroid(zone), ring)

\* C7: after the analysis ran with a valid isochrone polygon,
\* datazonesWithinIsochrone holds exactly the candidate datazones whose centroid
\* lies inside the isochrone's outer ring: none with an outside centroid is
\* included, none with an inside centroid is left out.
C7_ExactlyTheCandidatesInside ==
    [][(Responded /\ ValidPolygon(isoData'))
          => Elements(datazonesWithinIsochrone') =
                {z \in Elements(datazones) : CentroidInside(z, OuterRingOf(isoData'))}]_vars

\* every polygon of every feature of the isochrone, as a ring list
PolygonsOf(feature) ==
    IF feature.geometry.v.type = "MultiPolygon"
    THEN {At(feature.geometry.v.coordinates, k) :
             k \in 0..(Length(feature.geometry.v.coordinates) - 1)}
    ELSE {feature.geometry.v.coordinates}

AllPolygons(data) ==
    UNION {PolygonsOf(At(data.features, k)) : k \in 0..(Length(data.features) - 1)}

SeveralPolygons(data) == Cardinality(AllPolygons(data)) > 1

\* C8: when the response is a MultiPolygon or several contour features, a
\* datazone whose centroid lies in any of the constituent polygons is selected.
C8_SelectedIfInsideAnyPolygon ==
    [][(Responded /\ SeveralPolygons(isoData'))
          => \A z \in Elements(datazones) :
                (\E polygon \in AllPolygons(isoData') : CentroidInside(z, At(polygon, 0)))
                   => z \in Elements(datazonesWithinIsochrone')]_vars

\* Every request is started with the marker's position and this.minutes as
\* they are at that moment, and neither changes without a new request once the
\* marker is placed: the most recently started request is the one for
\* (marker, minutes).
AnswersLatestRequest(data) ==
    \E shape \in Shapes : data = IsochroneResponse(marker, minutes, shape)

\* C9: after all responses have been handled, that of the most recently
\* started request among them, the isochrone on the map,
\* datazonesWithinIsochrone and the displayed minutes are those of the most
\* recently started request, whatever order the responses arrived in.
C9_LatestRequestWins ==
    (nextReq \in answered /\ pending = {})
       => /\ AnswersLatestRequest(isoData)
          /\ \A z \in Elements(datazonesWithinIsochrone) :
                \E polygon \in AllPolygons(isoData) : CentroidInside(z, At(polygon, 0))
          /\ status.kind = "results" => status.minutes = minutes

\* C10: when the analysis is run with zero candidate datazones,
\* datazonesWithinIsochrone is the empty list afterwards, also when an earlier
\* run had selected zones, and no error is raised.
C10_ZeroCandidatesGiveEmptySelection ==
    [][(Responded /\ Length(isoData'.features) > 0 /\ Len(datazones) = 0)
          => (datazonesWithinIsochrone' = <<>> /\ thrown' = FALSE)]_vars

\* the first feature of the isochrone has a geometry whose coordinates[0] is
\* missing or not an array
NoUsablePolygon(data) ==
    /\ Truthy(data.features) /\ Length(data.features) > 0
    /\ Truthy(At(data.features, 0).geometry)
    /\ \/ ~Truthy(At(At(data.features, 0).geometry.v.coordinates, 0))
       \/ ~isArray(At(At(data.features, 0).geometry.v.coordinates, 0))

\* C11: when the analysis is given an isochrone with no usable polygon,
\* datazonesWithinIsochrone is the empty list afterwards, also when an earlier
\* run had selected zones, and no error is raised.
C11_NoUsablePolygonGivesEmptySelection ==
    [][(Responded /\ NoUsablePolygon(isoData'))
          => (datazonesWithinIsochrone' = <<>> /\ ~thrown')]_vars

-----------------------------------------------------------------------------
(* Claims about the aggregation of a metric *)

\* the zones whose value at key parses to a finite number
FiniteAt(zs, key) ==
    {i \in 1..Len(zs) : isFinite(parseFloat(Get(propsOf(zs[i]), key)))}

\* the sum of the parsed values at key over the zones of S
RECURSIVE SumParsed(_, _, _)
SumParsed(zs, key, S) ==
    IF S = {} THEN Num(0)
    ELSE LET i == CHOOSE j \in S : TRUE
         IN  RAdd(parseFloat(Get(propsOf(zs[i]), key)), SumParsed(zs, key, S \ {i}))

AllMetrics == {categories[c].metrics[m] : <<c, m>> \in MetricPositions}

\* C13: for every metric key, count is the number of zones whose value at the
\* key parses to a finite number and sum is the sum of exactly those values;
\* zones without properties, without the key or with a non-numeric value
\* change neither. Stated of stats[key] and of the metricSum and metricCount
\* that calculatePlotScores accumulates for "norm_" + key.
C13_SumAndCountOverFiniteValues ==
    Scored =>
        \A metric \in AllMetrics :
            /\ stats[1][metric.key].count = Cardinality(FiniteAt(zones, metric.key))
            /\ stats[1][metric.key].total =
                  SumParsed(zones, metric.key, FiniteAt(zones, metric.key))
            /\ metricTotals(zones, normKeyOf(metric), 1,
                            [metricSum |-> Num(0), metricCount |-> 0])
                 = [metricSum |-> SumParsed(zones, normKeyOf(metric),
                                            FiniteAt(zones, normKeyOf(metric))),
                    metricCount |-> Cardinality(FiniteAt(zones, normKeyOf(metric)))]

-----------------------------------------------------------------------------
(* Claims about pointInPolygon, calculateCentroid and the area functions *)

Measured == insideResult # <<>>

\* a vertex or point that is an array of at least two elements
WellFormed(v) == isArray(v) /\ Length(v) >= 2

XOf(v) == ToNumber(At(v, 0))
YOf(v) == ToNumber(At(v, 1))

\* the edges of a ring, as pairs of indices counted from 0: each vertex with
\* its predecessor, the first with the last
EdgesOf(ring) ==
    {<<i, (i + Length(ring) - 1) % Length(ring)>> : i \in 0..(Length(ring) - 1)}

\* (b - a) x (p - a): positive when p is to the left of the line from a to b
Cross(a, b, p) ==
    RSub(RMul(RSub(XOf(b), XOf(a)), RSub(YOf(p), YOf(a))),
         RMul(RSub(YOf(b), YOf(a)), RSub(XOf(p), XOf(a))))

\* p lies on the segment from a to b
OnSegment(a, b, p) ==
    /\ Cross(a, b, p) = Num(0)
    /\ (RLe(XOf(a), XOf(p)) /\ RLe(XOf(p), XOf(b))) \/ (RLe(XOf(b), XOf(p)) /\ RLe(XOf(p), XOf(a)))
    /\ (RLe(YOf(a), YOf(p)) /\ RLe(YOf(p), YOf(b))) \/ (RLe(YOf(b), YOf(p)) /\ RLe(YOf(p), YOf(a)))

OnSomeEdge(p, ring) ==
    \E e \in EdgesOf(ring) : OnSegment(At(ring, e[1]), At(ring, e[2]), p)

\* The ray from p in the direction of growing x crosses the edge between a
\* and b: one end is above the ray, the other on or below it, and p is
\* to the left of the edge taken upwards.
RayCrosses(p, a, b) ==
    \/ RLt(YOf(p), YOf(b)) /\ RLe(YOf(a), YOf(p)) /\ RLt(Num(0), Cross(a, b, p))
    \/ RLt(YOf(p), YOf(a)) /\ RLe(YOf(b), YOf(p)) /\ RLt(Num(0), Cross(b, a, p))

\* even-odd rule: p is inside when the ray crosses an odd number of the edges
EvenOdd(p, ring, edges) ==
    Cardinality({e \in edges : RayCrosses(p, At(ring, e[1]), At(ring, e[2]))}) % 2 = 1

WellFormedRing(ring) ==
    isArray(ring) /\ \A i \in 0..(Length(ring) - 1) : WellFormed(At(ring, i))

\* C15: for a ring of at least three well-formed vertices (simple or not) and
\* a point that is on none of its edges, pointInPolygon is the even-odd
\* ray-casting test; for the square [[0,0],[0,10],[10,10],[10,0],[0,0]] it
\* is true for (5,5) and false for (15,15).
C15_EvenOddRayCasting ==
    Measured =>
        /\ (/\ WellFormed(geoPoint)
            /\ WellFormedRing(outerRingOf(geoFeature))
            /\ Length(outerRingOf(geoFeature)) >= 3
            /\ ~OnSomeEdge(geoPoint, outerRingOf(geoFeature)))
              => insideResult[1] = EvenOdd(geoPoint, outerRingOf(geoFeature),
                                           EdgesOf(outerRingOf(geoFeature)))
        /\ (outerRingOf(geoFeature) = KnownSquare /\ geoPoint = Pt(5, 5))
              => insideResult[1] = TRUE
        /\ (outerRingOf(geoFeature) = KnownSquare /\ geoPoint = Pt(15, 15))
              => insideResult[1] = FALSE

\* the triangle (0,0), (4,0), (4,4) holds (3,1), and the ray from (-1,0)
\* runs through two of its vertices without making the point inside
C15_Witness ==
    /\ Measured
    /\ outerRingOf(geoFeature) = ArrV(<<Pt(0, 0), Pt(4, 0), Pt(4, 4)>>)
    /\ \/ geoPoint = Pt(3, 1) /\ insideResult[1] = TRUE
       \/ geoPoint = Pt(-1, 0) /\ insideResult[1] = FALSE

\* the edges of a ring with both ends well-formed
SoundEdges(ring) ==
    {e \in EdgesOf(ring) : WellFormed(At(ring, e[1])) /\ WellFormed(At(ring, e[2]))}

\* C16: pointInPolygon is false for a ring of fewer than three points and for
\* a malformed point; for a ring with malformed vertices the edges touching
\* them are skipped and the others are still tested, the result being the
\* even-odd count over the remaining edges.
C16_MalformedInputTolerated ==
    Measured =>
        /\ insideResult[1] \in BOOLEAN
        /\ ~WellFormed(geoPoint) => insideResult[1] = FALSE
        /\ (~isArray(outerRingOf(geoFeature)) \/ Length(outerRingOf(geoFeature)) < 3)
              => insideResult[1] = FALSE
        /\ (/\ WellFormed(geoPoint)
            /\ isArray(outerRingOf(geoFeature))
            /\ Length(outerRingOf(geoFeature)) >= 3)
              => insideResult[1] = EvenOdd(geoPoint, outerRingOf(geoFeature),
                                           SoundEdges(outerRingOf(geoFeature)))

\* (0,0), (4,0), null, (0,4): only the edge from (0,4) to (0,0) and the edge
\* from (0,0) to (4,0) remain, and the ray from (-1,2) crosses the first
C16_Witness ==
    /\ Measured
    /\ outerRingOf(geoFeature) = ArrV(<<Pt(0, 0), Pt(4, 0), Null, Pt(0, 4)>>)
    /\ geoPoint = Pt(-1, 2)
    /\ insideResult[1] = TRUE

\* the well-formed vertices of a ring
SoundVertices(ring) == {i \in 0..(Length(ring) - 1) : WellFormed(At(ring, i))}

RECURSIVE SumCoordinate(_, _, _)
SumCoordinate(ring, k, S) ==
    IF S = {} THEN Num(0)
    ELSE LET i == CHOOSE j \in S : TRUE
         IN  RAdd(ToNumber(At(At(ring, i), k)), SumCoordinate(ring, k, S \ {i}))

\* the arithmetic mean of the well-formed vertices
VertexMean(ring) ==
    ArrV(<<NumV(RDiv(SumCoordinate(ring, 0, SoundVertices(ring)),
                     Cardinality(SoundVertices(ring)))),
           NumV(RDiv(SumCoordinate(ring, 1, SoundVertices(ring)),
                     Cardinality(SoundVertices(ring))))>>)

NoOuterRing(feature) ==
    \/ noFeature(feature)
    \/ ~Truthy(feature.geometry)
    \/ feature.geometry.v.type # "Polygon"
    \/ ~isArray(outerRingOf(feature))
    \/ Length(outerRingOf(feature)) = 0

\* C17: calculateCentroid returns null when the feature is missing, is not a
\* Polygon, has no outer ring or the ring has no vertex; otherwise the
\* arithmetic mean of the outer ring's vertices, holes ignored and malformed
\* vertices skipped so that they do not affect the mean.
C17_CentroidIsVertexMean ==
    (centroidResult # <<>>) =>
        /\ NoOuterRing(geoFeature) => centroidResult[1] = Null
        /\ (~NoOuterRing(geoFeature) /\ SoundVertices(outerRingOf(geoFeature)) # {})
              => centroidResult[1] = VertexMean(outerRingOf(geoFeature))

\* C18: for zones without properties, missing keys, NaN values, empty
\* collections and rings with null or too short vertices the core functions
\* return a value and do not throw. Stated of the three geometry functions,
\* calculateGeoJSONArea running calculatePolygonArea on each polygon.
C18_NoExceptionForMalformedData ==
    Measured =>
        /\ insideResult[1] \in BOOLEAN
        /\ centroidResult[1] = Null \/ WellFormed(centroidResult[1])
        /\ ~areaResult[1].threw

-----------------------------------------------------------------------------
(* The bounding-box filter of findIntersectingZones, with the Turf functions *)
(* it stands between: turf.bbox before it and turf.booleanIntersects after   *)
(* it. Turf is a library; it is modelled for Polygon and MultiPolygon        *)
(* features whose polygons have no holes.                                    *)

\* the outer rings of the polygons of a feature
outerRings(feature) ==
    IF feature.geometry.v.type = "Polygon"
    THEN {At(feature.geometry.v.coordinates, 0)}
    ELSE {At(part, 0) : part \in Elements(feature.geometry.v.coordinates.v)}

\* every position of the feature
positionsOf(feature) == UNION {Elements(ring.v) : ring \in outerRings(feature)}

Least(numbers) ==
    IF numbers = {} THEN Infinity
    ELSE CHOOSE m \in numbers : \A o \in numbers : RLe(m, o)

Greatest(numbers) ==
    IF numbers = {} THEN MinusInfinity
    ELSE CHOOSE m \in numbers : \A o \in numbers : RLe(o, m)

\* turf.bbox: [minX, minY, maxX, maxY] over the positions of the feature
turfBbox(feature) ==
    <<Least({XOf(p) : p \in positionsOf(feature)}),
      Least({YOf(p) : p \in positionsOf(feature)}),
      Greatest({XOf(p) : p \in positionsOf(feature)}),
      Greatest({YOf(p) : p \in positionsOf(feature)})>>

\* bboxesIntersect with the four comparisons made non-strict, so that boxes
\* sharing only a border are taken apart
bboxesApart(bbox1, bbox2) ==
    ~(\/ RLe(bbox1[3], bbox2[1])
      \/ RLe(bbox2[3], bbox1[1])
      \/ RLe(bbox1[4], bbox2[2])
      \/ RLe(bbox2[4], bbox1[2]))

\* bboxesIntersect: not (1 left of 2, or 1 right of 2, or 1 below 2, or
\* 1 above 2)
bboxesIntersect(bbox1, bbox2) ==
    ~(\/ RLt(bbox1[3], bbox2[1])
      \/ RLt(bbox2[3], bbox1[1])
      \/ RLt(bbox1[4], bbox2[2])
      \/ RLt(bbox2[4], bbox1[2]))

\* u and v are of opposite sign
Opposite(u, v) ==
    \/ RLt(u, Num(0)) /\ RLt(Num(0), v)
    \/ RLt(v, Num(0)) /\ RLt(Num(0), u)

\* the segments from a to b and from c to d have a point in common
segmentsMeet(a, b, c, d) ==
    \/ Opposite(Cross(c, d, a), Cross(c, d, b)) /\ Opposite(Cross(a, b, c), Cross(a, b, d))
    \/ OnSegment(c, d, a)
    \/ OnSegment(c, d, b)
    \/ OnSegment(a, b, c)
    \/ OnSegment(a, b, d)

\* p is in the polygon bounded by the ring, border included
covers(ring, p) == OnSomeEdge(p, ring) \/ EvenOdd(p, ring, EdgesOf(ring))

\* the polygons bounded by two rings have a point in common: two edges
\* meet, or one polygon lies within the other
ringsMeet(ring1, ring2) ==
    \/ \E e1 \in EdgesOf(ring1) : \E e2 \in EdgesOf(ring2) :
          segmentsMeet(At(ring1, e1[1]), At(ring1, e1[2]), At(ring2, e2[1]), At(ring2, e2[2]))
    \/ covers(ring2, At(ring1, 0))
    \/ covers(ring1, At(ring2, 0))

\* turf.booleanIntersects: the two features have a point in common
booleanIntersects(feature1, feature2) ==
    \E ring1 \in outerRings(feature1) : \E ring2 \in outerRings(feature2) :
        ringsMeet(ring1, ring2)

\* The filter as a state machine: a caller takes two features, asks for their
\* boxes and compares them; then compares them the other way round.

MaxCoord == 2

\* the closed ring of the triangle that is the rectangle (x1,y1), (x2,y2)
\* without its corner number `without` (0: lower left, then counterclockwise)
TriangleAt(x1, y1, x2, y2, without) ==
    ArrV(SelectSeq(<<Pt(x1, y1), Pt(x2, y1), Pt(x2, y2), Pt(x1, y2)>>,
                   LAMBDA p : p # SquareAt(x1, y1, x2, y2).v[without + 1])
           \o <<IF without = 0 THEN Pt(x2, y1) ELSE Pt(x1, y1)>>)

\* rectangles with corners on the grid 0..MaxCoord, and the halves of each
\* below and above its falling diagonal
BoxRings ==
    UNION {{SquareAt(x1, y1, x2, y2)} \cup {TriangleAt(x1, y1, x2, y2, c) : c \in {0, 2}} :
           <<x1, y1, x2, y2>> \in
               {g \in (0..MaxCoord) \X (0..MaxCoord) \X (0..MaxCoord) \X (0..MaxCoord) :
                    g[1] < g[3] /\ g[2] < g[4]}}

BoxShapes == {PolygonOf(<<ring>>) : ring \in BoxRings}

BoxInit ==
    /\ boxShapes \in BoxShapes \X BoxShapes
    /\ boxesResult = <<>>
    /\ IsoIdle
    /\ ScoreIdle
    /\ ClickIdle
    /\ RatingIdle
    /\ GeomIdle
    /\ AccessIdle

\* the boxes of the two features compared
CompareBoxes ==
    /\ boxesResult = <<>>
    /\ boxesResult' = <<bboxesIntersect(turfBbox(boxShapes[1]), turfBbox(boxShapes[2]))>>
    /\ UNCHANGED boxShapes
    /\ UNCHANGED otherThanBoxes

\* the same two features compared the other way round
CompareSwapped ==
    /\ boxesResult # <<>>
    /\ boxShapes' = <<boxShapes[2], boxShapes[1]>>
    /\ boxesResult' = <<bboxesIntersect(turfBbox(boxShapes'[1]), turfBbox(boxShapes'[2]))>>
    /\ UNCHANGED otherThanBoxes

BoxNext ==
    \/ CompareBoxes
    \/ CompareSwapped

SpecBoxes == BoxInit /\ [][BoxNext]_vars

(* Claims about bboxesIntersect, checked under SpecBoxes *)

\* the two boxes have a point of the grid in common; boxes with corners on
\* the grid that have any point in common have one on the grid
ShareGridPoint(bbox1, bbox2) ==
    \E x, y \in 0..MaxCoord :
        /\ RLe(bbox1[1], Num(x)) /\ RLe(Num(x), bbox1[3])
        /\ RLe(bbox2[1], Num(x)) /\ RLe(Num(x), bbox2[3])
        /\ RLe(bbox1[2], Num(y)) /\ RLe(Num(y), bbox1[4])
        /\ RLe(bbox2[2], Num(y)) /\ RLe(Num(y), bbox2[4])

\* C19: bboxesIntersect is true exactly when the two boxes overlap on both
\* axes, boxes that only touch included; it gives the same answer with its
\* arguments exchanged; and it is never false for the boxes of two geometries
\* that intersect, so that the filter drops no intersecting zone.
C19_BoxesOverlapOnBothAxes ==
    (boxesResult # <<>>) =>
        /\ boxesResult[1] = ShareGridPoint(turfBbox(boxShapes[1]), turfBbox(boxShapes[2]))
        /\ boxesResult[1] = bboxesIntersect(turfBbox(boxShapes[2]), turfBbox(boxShapes[1]))
        /\ booleanIntersects(boxShapes[1], boxShapes[2]) => boxesResult[1]

\* the two boxes touch on a border and the geometries in them meet there
C19_Witness ==
    /\ boxesResult = <<TRUE>>
    /\ turfBbox(boxShapes[1])[3] = turfBbox(boxShapes[2])[1]
    /\ booleanIntersects(boxShapes[1], boxShapes[2])

-----------------------------------------------------------------------------
(* The datazones of the accessibility view: mergeData, which gives every     *)
(* zone a MeanHousePrice and an AvgTravelTime, and findIntersectingZones,    *)
(* which averages them over the zones an isochrone intersects.               *)

\* zoneName.indexOf(' - '), counted from 0; -1 when it does not occur
indexOfDash(name) ==
    IF \E i \in 1..(Len(name) - 2) : SubSeq(name, i, i + 2) = <<" ", "-", " ">>
    THEN (CHOOSE i \in 1..(Len(name) - 2) :
              /\ SubSeq(name, i, i + 2) = <<" ", "-", " ">>
              /\ \A j \in 1..(i - 1) : SubSeq(name, j, j + 2) # <<" ", "-", " ">>) - 1
    ELSE -1

RECURSIVE trimEnd(_)
trimEnd(s) == IF Len(s) > 0 /\ IsWhite(s[Len(s)]) THEN trimEnd(SubSeq(s, 1, Len(s) - 1)) ELSE s

\* s.trim()
trim(s) == trimEnd(SubSeq(s, SkipWhite(s, 1), Len(s)))

\* what every object inherits from Object.prototype: functions, and for
\* __proto__ the prototype itself; none of them is a number
InheritedKeys ==
    {<<"c", "o", "n", "s", "t", "r", "u", "c", "t", "o", "r">>,
     <<"v", "a", "l", "u", "e", "O", "f">>}
Inherited == [t |-> "function", v |-> <<>>]

\* table[key] of a table filled by parseCSV (an object literal {} with a
\* number stored under each name)
lookup(table, key) ==
    IF key \in DOMAIN table THEN NumV(table[key])
    ELSE IF key \in InheritedKeys THEN Inherited
    ELSE Undefined

\* the value mergeData stores: that of the zone's name, else that of the name
\* before ' - ', else 0
mergedValue(table, zoneName) ==
    IF Truthy(lookup(table, zoneName)) THEN lookup(table, zoneName)
    ELSE IF indexOfDash(zoneName) # -1
            /\ Truthy(lookup(table, trim(SubSeq(zoneName, 1, indexOfDash(zoneName)))))
         THEN lookup(table, trim(SubSeq(zoneName, 1, indexOfDash(zoneName))))
         ELSE NumV(Num(0))

mergeFeature(feature, prices, travelTimes) ==
    [feature EXCEPT !.properties =
        Object([k \in DOMAIN feature.properties.v \cup {"MeanHousePrice", "AvgTravelTime"} |->
                  CASE k = "MeanHousePrice" -> mergedValue(prices, feature.properties.v["Name"].v)
                    [] k = "AvgTravelTime" -> mergedValue(travelTimes, feature.properties.v["Name"].v)
                    [] OTHER -> feature.properties.v[k]])]

\* mergeData over geojsonData.features
mergeData(features, prices, travelTimes) ==
    [i \in 1..Len(features) |-> mergeFeature(features[i], prices, travelTimes)]

\* turf.polygon accepts rings of four or more positions that are closed, and
\* throws for others
linearRing(ring) ==
    isArray(ring) /\ Length(ring) >= 4 /\ At(ring, 0) = At(ring, Length(ring) - 1)

\* the polygons findIntersectingZones takes from the isochrone features, as
\* coordinate arrays
RECURSIVE isochronePolygons(_, _)
isochronePolygons(features, i) ==
    IF i >= Length(features) THEN <<>>
    ELSE (CASE At(features, i).geometry.v.type = "Polygon" ->
                  <<At(features, i).geometry.v.coordinates>>
            [] At(features, i).geometry.v.type = "MultiPolygon" ->
                  At(features, i).geometry.v.coordinates.v
            [] OTHER -> <<>>)
         \o isochronePolygons(features, i + 1)

\* the polygons combined by turf.union: one feature covering the points of
\* all of them
unionOf(polygons) ==
    IF Len(polygons) = 1 THEN Feature(0, Geometry("Polygon", polygons[1]), Object(<<>>))
    ELSE Feature(0, Geometry("MultiPolygon", ArrV(polygons)), Object(<<>>))

\* one round of the zone loop: the zone is kept when it has a geometry, its
\* box passes the filter and the exact test finds an intersection; a zone on
\* which Turf throws is skipped
zoneIntersects(isochronePolygon, zone) ==
    /\ Truthy(zone.geometry)
    /\ zone.geometry.v.type \in {"Polygon", "MultiPolygon"}
    /\ bboxesIntersect(turfBbox(isochronePolygon), turfBbox(zone))
    /\ \A ring \in outerRings(zone) : linearRing(ring)
    /\ booleanIntersects(isochronePolygon, zone)

\* zone.properties[key] when the zone has properties and !isNaN finds a
\* number there, as the one-element list of it; nothing otherwise
numericValue(zone, key) ==
    IF zone.properties.t = "object" /\ ~isNaN(ToNumber(Get(zone.properties.v, key)))
    THEN <<ToNumber(Get(zone.properties.v, key))>>
    ELSE <<>>

\* total += zone.properties[key] over the zones from index i on
RECURSIVE totalOf(_, _, _, _)
totalOf(zoneList, key, i, acc) ==
    IF i > Len(zoneList) THEN acc
    ELSE totalOf(zoneList, key, i + 1,
                 IF numericValue(zoneList[i], key) = <<>> THEN acc
                 ELSE RAdd(acc, numericValue(zoneList[i], key)[1]))

\* zoneCount > 0 ? total / zoneCount : 0 with zoneCount = intersectingZones.length
average(total, zoneList, key) ==
    IF Len(zoneList) > 0 THEN RDiv(total, Len(zoneList)) ELSE Num(0)

intersectionResults(intersectingZones) ==
    [count |-> Len(intersectingZones),
     avgHousePrice |->
        average(totalOf(intersectingZones, "MeanHousePrice", 1, Num(0)),
                intersectingZones, "MeanHousePrice"),
     avgTravelTime |->
        average(totalOf(intersectingZones, "AvgTravelTime", 1, Num(0)),
                intersectingZones, "AvgTravelTime"),
     zones |-> intersectingZones]

\* findIntersectingZones: nothing when it returns early, else the one-element
\* list of the results with the zones highlighted
findIntersectingZones(isochroneData, geojson) ==
    IF ~Truthy(isochroneData.features) \/ Length(isochroneData.features) = 0 THEN <<>>
    ELSE IF Len(isochronePolygons(isochroneData.features, 0)) = 0 THEN <<>>
    ELSE <<intersectionResults(
              SelectSeq(geojson,
                  LAMBDA zone :
                      zoneIntersects(unionOf(isochronePolygons(isochroneData.features, 0)),
                                     zone)))>>

-----------------------------------------------------------------------------
(* The accessibility view as a state machine: clicks on empty lands, on the  *)
(* railway station and on the toggle button start generateIsochrones or run  *)
(* clearIsochrones; each fetch is answered or rejected later, in any order.  *)

MaxGenerated == 2

\* dataHandler.emptyLands: two lands, by properties.id, with their centers
AccessLands == {1, 2}
landCenter(id) == IF id = 1 THEN Pt(1, 1) ELSE Pt(5, 1)
stationCenter == Pt(5, 3)

\* the tables parseCSV filled from the two CSV files
Prices == [name \in {<<"A">>, <<"B">>} |-> IF name = <<"A">> THEN Num(100) ELSE Num(300)]
TravelTimes == [name \in {<<"A">>} |-> Num(10)]

AccessZone(id, name, ring) ==
    Feature(id, Geometry("Polygon", ArrV(<<ring>>)), Object([k \in {"Name"} |-> StrV(name)]))

\* datazones2011.geojson: two zones at the first land; a triangle between
\* the lands that the box of the first land's isochrone meets in a corner the
\* triangle leaves out; a zone far from both; two zones at the second land,
\* one of them named like an inherited member
RawZones ==
    <<AccessZone(21, <<"A">>, SquareAt(0, 0, 1, 1)),
      AccessZone(22, <<"A", " ", "-", " ", "1">>, SquareAt(2, 1, 3, 2)),
      AccessZone(23, <<"C">>, ArrV(<<Pt(2, 4), Pt(4, 2), Pt(4, 4), Pt(2, 4)>>)),
      AccessZone(24, <<"C", " ", "-", " ", "1">>, SquareAt(0, 8, 1, 9)),
      AccessZone(25, <<"B">>, SquareAt(5, 0, 6, 1)),
      AccessZone(26, <<"c", "o", "n", "s", "t", "r", "u", "c", "t", "o", "r">>,
                 SquareAt(4, 1, 5, 2))>>

\* The Mapbox isochrone service. The answer for a center is the square two
\* degrees around it, alone or with a second contour one degree further west
\* (as a second feature), or an error object without features.
AccessShapes == {"polygon", "contours", "error"}

ringAround(center, reach) ==
    Square(RSub(XOf(center), Num(reach)), RSub(YOf(center), Num(reach)),
           RAdd(XOf(center), Num(reach)), RAdd(YOf(center), Num(reach)))

westOf(center) == ArrV(<<NumV(RSub(XOf(center), Num(2))), At(center, 1)>>)

AccessIsochrone(center, shape) ==
    CASE shape = "polygon" ->
            [features |-> ArrV(<<Contour(Geometry("Polygon", ArrV(<<ringAround(center, 1)>>)))>>)]
      [] shape = "contours" ->
            [features |-> ArrV(<<Contour(Geometry("Polygon", ArrV(<<ringAround(center, 1)>>))),
                                 Contour(Geometry("Polygon",
                                                  ArrV(<<ringAround(westOf(center), 1)>>)))>>)]
      [] OTHER -> [features |-> Undefined]

showText == "Show 8-min Access"
hideText == "Hide 8-min Access"
failedAlert == "Could not generate accessibility analysis. Please try again."
selectFirstAlert == "Please select a plot first to analyze accessibility."

\* after init() of map-data.js and initializeIsochrones: the zones merged,
\* the button in place, nothing selected
\* addIsochroneToggle and addIsochroneStyles add their element unless one
\* with its id is in the document
addIsochroneToggle(buttons) == IF buttons > 0 THEN buttons ELSE buttons + 1
addIsochroneStyles(styles) == IF styles > 0 THEN styles ELSE styles + 1

\* the page once its scripts have run, DOMContentLoaded has called
\* initializeIsochrones and init has set up the map
AccessInit ==
    /\ listeners = 1
    /\ toggleButtons = addIsochroneToggle(0)
    /\ styleElements = addIsochroneStyles(0)
    /\ checked = FALSE
    /\ called = <<>>
    /\ geojsonData = mergeData(RawZones, Prices, TravelTimes)
    /\ selectedLandId = 0
    /\ landResults = [l \in AccessLands |-> <<>>]
    /\ isochronesVisible = FALSE
    /\ accessSource = <<>>
    /\ isoLayer = FALSE
    /\ highlight = <<>>
    /\ resultsShown = <<>>
    /\ scoreShown = <<>>
    /\ toggleText = showText
    /\ generating = {}
    /\ generated = 0
    /\ dispatched = 0
    /\ alerted = ""
    /\ IsoIdle
    /\ ScoreIdle
    /\ ClickIdle
    /\ RatingIdle
    /\ GeomIdle
    /\ BoxIdle

\* window.isochroneIntersectionHandler: the handler is a top-level const of
\* its script, which is a global binding but no property of window
handlerOnWindow == FALSE

\* clearResults of the intersection handler
clearResults ==
    /\ highlight' = <<>>
    /\ resultsShown' = <<>>

\* mutant of cleared: isochronesVisible is left as it is
clearedButVisible ==
    /\ isoLayer' = FALSE
    /\ accessSource' = <<>>
    /\ UNCHANGED <<highlight, resultsShown, isochronesVisible>>
    /\ toggleText' = showText
    /\ scoreShown' = <<>>

\* clearIsochrones; it calls clearResults when it finds the handler on window
cleared ==
    /\ isoLayer' = FALSE
    /\ accessSource' = <<>>
    /\ IF handlerOnWindow THEN clearResults ELSE UNCHANGED <<highlight, resultsShown>>
    /\ toggleText' = showText
    /\ scoreShown' = <<>>
    /\ isochronesVisible' = FALSE

clearIsochrones ==
    /\ cleared
    /\ UNCHANGED <<generating, generated, dispatched>>

\* generateIsochrones up to its first await, for a feature that has a center
generateIsochrones(land, center) ==
    /\ generated < MaxGenerated
    /\ cleared
    /\ generated' = generated + 1
    /\ generating' = generating \cup {[id |-> generated + 1, land |-> land, center |-> center]}
    /\ UNCHANGED dispatched

\* click on an empty land: its selection is toggled; isochrones are
\* generated for a land now selected and cleared otherwise
LandClicked(id) ==
    /\ selectedLandId' = IF selectedLandId = id THEN 0 ELSE id
    /\ IF selectedLandId' = id
       THEN generateIsochrones(id, landCenter(id))
       ELSE clearIsochrones
    /\ alerted' = ""
    /\ UNCHANGED <<geojsonData, landResults>>
    /\ UNCHANGED <<pageVars, called>>
    /\ UNCHANGED otherThanAccess

\* click on the railway station: isochrones cleared, then generated for a
\* feature made up from the station
StationClicked ==
    /\ generateIsochrones(0, stationCenter)
    /\ alerted' = ""
    /\ UNCHANGED <<geojsonData, selectedLandId, landResults>>
    /\ UNCHANGED <<pageVars, called>>
    /\ UNCHANGED otherThanAccess

\* click on #isochrone-toggle
ToggleClicked ==
    /\ toggleButtons > 0
    /\ IF selectedLandId # 0
       THEN /\ IF isochronesVisible
               THEN clearIsochrones
               ELSE generateIsochrones(selectedLandId, landCenter(selectedLandId))
            /\ alerted' = ""
       ELSE /\ alerted' = selectFirstAlert
            /\ UNCHANGED <<isochronesVisible, accessSource, isoLayer, highlight, resultsShown,
                           scoreShown, toggleText, generating, generated, dispatched>>
    /\ UNCHANGED <<geojsonData, selectedLandId, landResults>>
    /\ UNCHANGED <<pageVars, called>>
    /\ UNCHANGED otherThanAccess

\* area += calculateGeoJSONArea(isoFeature) for the features from index i on
RECURSIVE isochroneArea(_, _, _)
isochroneArea(features, i, acc) ==
    IF i >= Length(features) THEN Returned(acc)
    ELSE IF calculateGeoJSONArea(At(features, i)).threw THEN Threw
         ELSE isochroneArea(features, i + 1, acc \o calculateGeoJSONArea(At(features, i)).value)

\* what calculateAccessibilityScore reads from feature.properties: the
\* averages when the analysis has written them there, else 0
scoreFacts(written, area) ==
    [housePrice |-> IF written # <<>> /\ ~isNaN(written[1].avgHousePrice)
                    THEN written[1].avgHousePrice ELSE Num(0),
     travelTime |-> IF written # <<>> /\ ~isNaN(written[1].avgTravelTime)
                    THEN written[1].avgTravelTime ELSE Num(0),
     area |-> area]

hasFeatures(data) == Truthy(data.features) /\ Length(data.features) > 0

\* the rest of generateIsochrones once the fetch has answered, with the
\* listener of isochroneGenerated run by dispatchEvent
answer(r, data, area, found) ==
    /\ accessSource' = <<data>>
    /\ isoLayer' = TRUE
    /\ toggleText' = hideText
    /\ isochronesVisible' = TRUE
    /\ IF hasFeatures(data) /\ area.threw
       THEN /\ alerted' = failedAlert
            /\ UNCHANGED <<scoreShown, dispatched, resultsShown, highlight, landResults>>
       ELSE /\ alerted' = ""
            /\ scoreShown' =
                  IF hasFeatures(data)
                  THEN <<scoreFacts(IF r.land = 0 THEN <<>> ELSE landResults[r.land], area.value)>>
                  ELSE scoreShown
            /\ dispatched' = dispatched + 1
            /\ IF found = <<>>
               THEN UNCHANGED <<resultsShown, highlight, landResults>>
               ELSE /\ resultsShown' = <<[count |-> found[1].count,
                                          avgHousePrice |-> found[1].avgHousePrice,
                                          avgTravelTime |-> found[1].avgTravelTime]>>
                    /\ highlight' = <<[i \in 1..Len(found[1].zones) |-> found[1].zones[i].id]>>
                    /\ landResults' =
                          [l \in AccessLands |->
                              IF l = r.land \/ l = selectedLandId
                              THEN <<[intersectingZones |-> found[1].count,
                                      avgHousePrice |-> found[1].avgHousePrice,
                                      avgTravelTime |-> found[1].avgTravelTime]>>
                              ELSE landResults[l]]

AccessResponse(r, shape) ==
    /\ generating' = generating \ {r}
    /\ \E data \in {AccessIsochrone(r.center, shape)} :
          \E found \in {findIntersectingZones(data, geojsonData)} :
             answer(r, data,
                    IF hasFeatures(data) THEN isochroneArea(data.features, 0, <<>>)
                    ELSE Returned(<<>>),
                    found)
    /\ UNCHANGED <<geojsonData, selectedLandId, generated>>
    /\ UNCHANGED <<pageVars, called>>
    /\ UNCHANGED otherThanAccess

\* the fetch is rejected, or its body is not JSON: the catch block alerts
AccessRejected(r) ==
    /\ generating' = generating \ {r}
    /\ alerted' = failedAlert
    /\ UNCHANGED <<geojsonData, selectedLandId, landResults, isochronesVisible, accessSource,
                   isoLayer, highlight, resultsShown, scoreShown, toggleText, generated,
                   dispatched>>
    /\ UNCHANGED <<pageVars, called>>
    /\ UNCHANGED otherThanAccess

\* the timer of checkAndInitializeIsochrones: initializeIsochrones once more
checkAndInitializeIsochrones ==
    /\ ~checked
    /\ checked' = TRUE
    /\ styleElements' = addIsochroneStyles(styleElements)
    /\ toggleButtons' = addIsochroneToggle(toggleButtons)
    /\ listeners' = listeners + 1
    /\ UNCHANGED <<called, geojsonData, selectedLandId, landResults, isochronesVisible,
                   accessSource, isoLayer, highlight, resultsShown, scoreShown, toggleText,
                   generating, generated, dispatched, alerted>>
    /\ UNCHANGED otherThanAccess

\* the call of one listener of landSelectionChanged, by what it finds
listenerCall(visible, land) == IF visible /\ land # 0 THEN "generateIsochrones" ELSE "clearIsochrones"

\* the calls of the listeners from the i-th on: the first finds
\* isochronesVisible as it is, the others find it false, as both
\* generateIsochrones and clearIsochrones leave it
RECURSIVE listenerCalls(_, _, _, _)
listenerCalls(i, n, visible, land) ==
    IF i > n THEN <<>>
    ELSE <<listenerCall(visible, land)>> \o listenerCalls(i + 1, n, FALSE, land)

\* a landSelectionChanged event with a feature in its detail (land # 0) or
\* without one: every listener runs; a clearIsochrones after the first call
\* finds everything cleared and changes nothing
LandSelectionChanged(land) ==
    /\ called' = listenerCalls(1, listeners, isochronesVisible, land)
    /\ IF called' = <<>>
       THEN UNCHANGED <<isochronesVisible, accessSource, isoLayer, highlight, resultsShown,
                       scoreShown, toggleText, generating, generated, dispatched, alerted>>
       ELSE /\ IF called'[1] = "generateIsochrones"
               THEN generateIsochrones(land, landCenter(land))
               ELSE clearIsochrones
            /\ alerted' = ""
    /\ UNCHANGED <<pageVars, geojsonData, selectedLandId, landResults>>
    /\ UNCHANGED otherThanAccess

AccessNext ==
    \/ checkAndInitializeIsochrones
    \/ \E land \in {0} \cup AccessLands : LandSelectionChanged(land)
    \/ \E id \in AccessLands : LandClicked(id)
    \/ StationClicked
    \/ ToggleClicked
    \/ \E r \in generating : \E shape \in AccessShapes : AccessResponse(r, shape)
    \/ \E r \in generating : AccessRejected(r)

SpecAccess == AccessInit /\ [][AccessNext]_vars

(* Claims about the accessibility view, checked under SpecAccess *)

\* a step in which findIntersectingZones ran to its end on the data now in
\* the 'iso' source
Analysed ==
    /\ dispatched' = dispatched + 1
    /\ hasFeatures(accessSource'[1])

\* the zones whose geometry has a point in common with an isochrone polygon
Intersecting(data) ==
    SelectSeq(geojsonData,
              LAMBDA zone : booleanIntersects(unionOf(isochronePolygons(data.features, 0)), zone))

\* the zone has a number at the key
HasNumber(zone, key) ==
    /\ zone.properties.t = "object"
    /\ key \in DOMAIN zone.properties.v
    /\ zone.properties.v[key].t = "number"
    /\ ~isNaN(zone.properties.v[key].v)

RECURSIVE SumNumbers(_, _, _)
SumNumbers(zoneList, key, i) ==
    IF i > Len(zoneList) THEN Num(0)
    ELSE RAdd(IF HasNumber(zoneList[i], key) THEN zoneList[i].properties.v[key].v ELSE Num(0),
              SumNumbers(zoneList, key, i + 1))

NumberCount(zoneList, key) == Len(SelectSeq(zoneList, LAMBDA zone : HasNumber(zone, key)))

\* shown is the sum of the numbers at the key over the zones, divided by the
\* number of zones that have a number there
AverageOfNumbers(shown, zoneList, key) ==
    NumberCount(zoneList, key) > 0 =>
        shown = RDiv(SumNumbers(zoneList, key, 1), NumberCount(zoneList, key))

\* C14: the avgHousePrice and the avgTravelTime that findIntersectingZones
\* reports are each the sum of the numeric values of the property over the
\* intersecting zones, divided by the number of intersecting zones that have
\* a numeric value for it.
C14_AveragesOverZonesWithNumbers ==
    [][Analysed =>
          /\ AverageOfNumbers(resultsShown'[1].avgHousePrice,
                              Intersecting(accessSource'[1]), "MeanHousePrice")
          /\ AverageOfNumbers(resultsShown'[1].avgTravelTime,
                              Intersecting(accessSource'[1]), "AvgTravelTime")]_vars

\* a step in which the fetch of a generateIsochrones call was rejected
FetchRejected == \E r \in generating : AccessRejected(r)

\* a step in which the service answered a generateIsochrones call without
\* features
AnsweredWithoutFeatures ==
    /\ generating' # generating
    /\ generating' \subseteq generating
    /\ ~FetchRejected
    /\ ~hasFeatures(accessSource'[1])

\* C12: when the isochrone provider fails (the fetch is rejected, or the
\* response has no features), zone selection and scoring are not run for
\* that request; and generateIsochrones on a rejected fetch ends with
\* isochronesVisible = false, no 'iso' source on the map and no
\* isochroneGenerated event dispatched.
C12_FailedProviderLeavesNoIsochrone ==
    [][/\ (FetchRejected \/ AnsweredWithoutFeatures) =>
              UNCHANGED <<resultsShown, highlight, landResults, scoreShown>>
       /\ FetchRejected =>
              /\ ~isochronesVisible'
              /\ accessSource' = <<>>
              /\ dispatched' = dispatched]_vars

\* The half of C12 that is about getIso, for the runs of Spec: a rejected
\* fetch, and a response without features, leave the selection and the
\* status as they were (analyzeDatazonesWithinIsochrone is not called).
FailedFetchRunsNoAnalysis ==
    [][((\E r \in pending : IsoRejected(r))
          \/ (Responded /\ ~hasFeatures(isoData')))
         => UNCHANGED <<datazonesWithinIsochrone, status>>]_vars

-----------------------------------------------------------------------------
(* Claims about the selection as a function, checked under Spec *)

\* a step in which getIso called analyzeDatazonesWithinIsochrone
SelectionRan == Responded /\ hasFeatures(isoData')

\* the datazone features as the source 'datazones' delivers them
SourceZones == UNION {Elements(view) : view \in Views}

\* the selection a run of analyzeDatazonesWithinIsochrone leaves when it is
\* given the isochrone and the candidates, started from the selection `before`
SelectionFrom(data, candidates, before) ==
    afterFetch(data, candidates, before, defaultStatus, initialMinutes).within

\* C20: the selection is a pure function of its inputs. The run modifies,
\* adds and removes no datazone feature (the candidates are as before and
\* every selected zone is a feature of the source, properties included);
\* run once more with the same isochrone and the same candidates it yields
\* the same datazonesWithinIsochrone; and so does a run with the same
\* isochrone and candidates that starts from another selection.
C20_SelectionIsPure ==
    [][SelectionRan =>
          /\ datazones' = datazones
          /\ Elements(datazonesWithinIsochrone') \subseteq SourceZones
          /\ SelectionFrom(isoData', datazones', datazonesWithinIsochrone')
                = datazonesWithinIsochrone'
          /\ SelectionFrom(isoData', datazones', <<>>) = datazonesWithinIsochrone']_vars

-----------------------------------------------------------------------------
(* Claims about the counts of a score record, checked under SpecScore *)

\* the labels of the metrics of category c that had data, in the order of the
\* taxonomy
LabelsWithData(zs, c) ==
    LET withData == SelectSeq(categories[c].metrics,
                        LAMBDA m : ZonesWithValue(zs, "norm_" \o m.key) # {})
    IN  [k \in 1..Len(withData) |-> withData[k].label]

RECURSIVE SumCounts(_, _)
SumCounts(cs, K) ==
    IF K = {} THEN 0
    ELSE LET k == CHOOSE x \in K : TRUE
         IN  cs[k].count + SumCounts(cs, K \ {k})

\* the sum of the scores in a metrics list
RECURSIVE SumListed(_, _)
SumListed(metrics, i) ==
    IF i > Len(metrics) THEN Num(0)
    ELSE RAdd(metrics[i].score, SumListed(metrics, i + 1))

RECURSIVE SumAllListed(_, _)
SumAllListed(cs, K) ==
    IF K = {} THEN Num(0)
    ELSE LET k == CHOOSE x \in K : TRUE
         IN  RAdd(SumListed(cs[k].metrics, 1), SumAllListed(cs, K \ {k}))

\* C21: in every record calculatePlotScores returns, each category's count
\* is the length of its metrics list and the number of the category's
\* metrics that had a value in at least one zone; the metrics list keeps the
\* order of the taxonomy; and the sum of the counts is the divisor of
\* overallScore (overallScore times that sum is the sum of all listed scores,
\* and overallScore is 0 when the sum is 0).
C21_CountsMatchMetricsLists ==
    Scored =>
        /\ \A k \in DOMAIN Result.categoryScores :
              Result.categoryScores[k].count = Len(Result.categoryScores[k].metrics)
        /\ Len(zones) > 0 =>
              \A c \in 1..Len(categories) :
                  /\ Result.categoryScores[KeyOfCategory(c)].count
                        = Cardinality(ContributingIn(zones, c))
                  /\ [i \in 1..Len(Result.categoryScores[KeyOfCategory(c)].metrics) |->
                         Result.categoryScores[KeyOfCategory(c)].metrics[i].name]
                        = LabelsWithData(zones, c)
        /\ IF SumCounts(Result.categoryScores, DOMAIN Result.categoryScores) = 0
           THEN Result.overallScore = Num(0)
           ELSE Result.overallScore =
                   RDiv(SumAllListed(Result.categoryScores, DOMAIN Result.categoryScores),
                        SumCounts(Result.categoryScores, DOMAIN Result.categoryScores))

\* a category with data for its first and third metric and none for the
\* second, while another category has data too
C21_Witness ==
    /\ Scored
    /\ ContributingIn(zones, 1) = {<<1, 1>>, <<1, 3>>}
    /\ ContributingIn(zones, 2) # {}
    /\ Len(Result.categoryScores[KeyOfCategory(1)].metrics) = 2

-----------------------------------------------------------------------------
(* Claims about the area functions, checked under SpecGeometry *)

\* the polygons of a Polygon or MultiPolygon feature, as coordinate arrays
PartsOf(feature) ==
    IF feature.geometry.v.type = "Polygon" THEN <<feature.geometry.v.coordinates>>
    ELSE feature.geometry.v.coordinates.v

HasArea(feature) ==
    /\ ~noFeature(feature)
    /\ Truthy(feature.geometry)
    /\ feature.geometry.v.type \in {"Polygon", "MultiPolygon"}
    /\ isArray(feature.geometry.v.coordinates)

\* no vertex of the polygon's outer ring is null or undefined
Readable(part) ==
    isArray(At(part, 0)) =>
        \A i \in 0..(Length(At(part, 0)) - 1) : ~nullish(At(At(part, 0), i))

\* the Shoelace sum of a ring: x1 * y2 - x2 * y1 over its consecutive vertices
RECURSIVE ShoelaceSum(_, _)
ShoelaceSum(ring, I) ==
    IF I = {} THEN Num(0)
    ELSE LET i == CHOOSE x \in I : TRUE
         IN  RAdd(RSub(RMul(XOf(At(ring, i)), YOf(At(ring, i + 1))),
                       RMul(XOf(At(ring, i + 1)), YOf(At(ring, i)))),
                  ShoelaceSum(ring, I \ {i}))

\* the area of one polygon by its outer ring: nothing for a ring of fewer
\* than four positions
OuterRingArea(part) ==
    IF ~isArray(At(part, 0)) \/ Length(At(part, 0)) < 4 THEN <<>>
    ELSE <<[absArea |-> RAbs(ShoelaceSum(At(part, 0), 0..(Length(At(part, 0)) - 2))),
            centerLat |-> RDiv(SumCoordinate(At(part, 0), 1, 0..(Length(At(part, 0)) - 1)),
                               Length(At(part, 0)))]>>

\* the polygon with its outer ring in the opposite orientation
Reversed(part) ==
    ArrV(<<ArrV([i \in 1..Length(At(part, 0)) |->
                    At(part, 0).v[Length(At(part, 0)) + 1 - i]])>>
         \o Tail(part.v))

RECURSIVE SumOfParts(_, _)
SumOfParts(parts, i) ==
    IF i > Len(parts) THEN <<>>
    ELSE calculatePolygonArea(parts[i]).value \o SumOfParts(parts, i + 1)

-----------------------------------------------------------------------------
(* Claims about what the accessibility view shows, checked under SpecAccess *)

\* C23: clearIsochrones leaves neither the isochrone nor the highlight of the
\* intersecting zones nor intersection results; so when no request is in
\* flight, the intersecting zones are highlighted only if the isochrone layer
\* is on the map.
C23_HighlightOnlyWithIsochrone ==
    (generating = {} /\ highlight # <<>>) => isoLayer

\* the first sentence alone: a click that only runs clearIsochrones leaves
\* no isochrone, no highlight and no results
ClearLeavesNothing ==
    [][(generating' = generating /\ alerted' = "" /\ isochronesVisible /\ ~isochronesVisible') =>
          /\ ~isoLayer' /\ accessSource' = <<>>
          /\ highlight' = <<>> /\ resultsShown' = <<>>]_vars

\* what clearIsochrones does remove: the isochrone layer and source and the score
ClearRemovesIsochrone ==
    [][(generating' = generating /\ alerted' = "" /\ isochronesVisible /\ ~isochronesVisible') =>
          /\ ~isoLayer' /\ accessSource' = <<>> /\ scoreShown' = <<>>]_vars

\* C24: the score shown when generateIsochrones completes uses the average
\* house price and travel time that the intersection analysis computed for
\* the isochrone of that same call.
C24_ScoreUsesCurrentAnalysis ==
    [][(dispatched' = dispatched + 1 /\ hasFeatures(accessSource'[1])) =>
          /\ scoreShown' # <<>>
          /\ resultsShown' # <<>>
          /\ scoreShown'[1].housePrice = resultsShown'[1].avgHousePrice
          /\ scoreShown'[1].travelTime = resultsShown'[1].avgTravelTime]_vars

\* what the score does use: the averages the feature carried when the call
\* was answered, which are those of an earlier analysis or absent
ScoreUsesEarlierAnalysis ==
    [][(dispatched' = dispatched + 1 /\ hasFeatures(accessSource'[1])) =>
          \E r \in generating \ generating' :
             /\ scoreShown' # <<>>
             /\ scoreShown'[1].housePrice = scoreFacts(IF r.land = 0 THEN <<>> ELSE landResults[r.land], <<>>).housePrice
             /\ scoreShown'[1].travelTime = scoreFacts(IF r.land = 0 THEN <<>> ELSE landResults[r.land], <<>>).travelTime]_vars

-----------------------------------------------------------------------------
(* calculateAccessibilityScore: the scores computed from the house price, *)
(* the travel time and the area it has read                               *)

\* the result of Math.sqrt or Math.log is known to lie between two rationals
Between(lo, hi) == [lo |-> lo, hi |-> hi]
Exactly(a) == Between(a, a)

RECURSIVE Power(_, _)
Power(b, e) == IF e = 0 THEN 1 ELSE b * Power(b, e - 1)

\* the greatest k in lo..hi with k * k <= n
RECURSIVE floorSqrt(_, _, _)
floorSqrt(n, lo, hi) ==
    IF lo >= hi THEN lo
    ELSE IF ((lo + hi + 1) \div 2) * ((lo + hi + 1) \div 2) <= n
         THEN floorSqrt(n, (lo + hi + 1) \div 2, hi)
         ELSE floorSqrt(n, lo, ((lo + hi + 1) \div 2) - 1)

wholePart(a) == a.n \div a.d

\* Math.sqrt(a) for a finite a >= 0
sqrtOf(a, k) ==
    IF a.d = 1 /\ k * k = a.n THEN Exactly(Num(k)) ELSE Between(Num(k), Num(k + 1))
sqrt(a) ==
    sqrtOf(a, floorSqrt(wholePart(a), 0, IF wholePart(a) < 40000 THEN wholePart(a) ELSE 40000))

\* Math.log(x) / Math.log(3) is known to the nearest 1/LogGrid below and above
LogGrid == 4

\* 3^(k / LogGrid) <= x
reaches(x, k) ==
    IF k >= 0 THEN Power(x.n, LogGrid) >= Power(3, k) * Power(x.d, LogGrid)
    ELSE Power(x.n, LogGrid) * Power(3, -k) >= Power(x.d, LogGrid)

\* the greatest k with 3^(k / LogGrid) <= x, searched from k
RECURSIVE gridBelow(_, _)
gridBelow(x, k) ==
    IF ~reaches(x, k) THEN gridBelow(x, k - 1)
    ELSE IF reaches(x, k + 1) THEN gridBelow(x, k + 1)
    ELSE k

logOf(x, k) ==
    IF reaches(x, k) /\ reaches([n |-> x.d, d |-> x.n], -k)
    THEN Exactly(Rat(k, LogGrid))
    ELSE Between(Rat(k, LogGrid), Rat(k + 1, LogGrid))

\* Math.log(x) / Math.log(3) for a finite x > 0
log3(x) == logOf(x, gridBelow(x, 0))

RMin(a, b) == IF RLt(b, a) THEN b ELSE a
RMax(a, b) == IF RLt(a, b) THEN b ELSE a

atMost(c, v) == Between(RMin(c, v.lo), RMin(c, v.hi))
atLeast(c, v) == Between(RMax(c, v.lo), RMax(c, v.hi))
times(c, v) == Between(RMul(c, v.lo), RMul(c, v.hi))
plus(v, w) == Between(RAdd(v.lo, w.lo), RAdd(v.hi, w.hi))

\* Math.round(a): the integer nearest to a, halves upwards
round(a) == Num(wholePart(RAdd(a, Rat(1, 2))))
rounded(v) == Between(round(v.lo), round(v.hi))

avgGlasgowPrice == 180000
maxPriceScore == 40
maxTimeScore == 40
avgTravelTime == 15
areaWeight == Rat(1, 5)
priceWeight == Rat(2, 5)
timeWeight == Rat(2, 5)

areaScoreOf(area) == atMost(Num(100), atLeast(Num(1), times(Rat(1, 100), sqrt(area))))

priceScoreOf(housePrice) ==
    IF RLt(Num(0), housePrice)
    THEN atMost(Num(maxPriceScore),
                times(Num(maxPriceScore), log3(RAdd(RDiv(housePrice, avgGlasgowPrice), Rat(1, 2)))))
    ELSE Exactly(Num(0))

timeScoreOf(travelTime) ==
    IF RLt(Num(0), travelTime)
    THEN Exactly(RMax(Num(0), RMul(Num(maxTimeScore),
                                   RSub(Num(1), RDiv(travelTime, avgTravelTime * 2)))))
    ELSE Exactly(Num(0))

\* the scores of calculateAccessibilityScore and the components it displays
accessibilityScore(housePrice, travelTime, area) ==
    [areaScore |-> areaScoreOf(area),
     priceScore |-> priceScoreOf(housePrice),
     timeScore |-> timeScoreOf(travelTime),
     combinedScore |-> rounded(plus(times(areaWeight, areaScoreOf(area)),
                                    plus(times(priceWeight, priceScoreOf(housePrice)),
                                         times(timeWeight, timeScoreOf(travelTime))))),
     area |-> rounded(times(areaWeight, areaScoreOf(area))),
     price |-> rounded(priceScoreOf(housePrice)),
     time |-> rounded(timeScoreOf(travelTime))]

\* average house prices, from none over those of cheap zones to expensive ones
HousePrices == {Num(0), Num(9000), Num(45000), Num(90000), Num(180000), Num(450000),
                Num(1530000)}
\* average travel times in minutes
TravelMinutes == {Num(0), Num(5), Rat(25, 2), Num(30), Num(45)}
\* isochrone areas in square metres
Areas == {Num(0), Num(4000000), Num(5000000), Num(100000000), Num(200000000)}

RatingInit ==
    /\ scoreInputs \in [housePrice : HousePrices, travelTime : TravelMinutes, area : Areas]
    /\ scoreComponents = <<>>
    /\ IsoIdle
    /\ ScoreIdle
    /\ ClickIdle
    /\ GeomIdle
    /\ BoxIdle
    /\ AccessIdle
    /\ ClickIdle

Rate ==
    /\ scoreComponents = <<>>
    /\ scoreComponents' = <<accessibilityScore(scoreInputs.housePrice, scoreInputs.travelTime,
                                               scoreInputs.area)>>
    /\ UNCHANGED scoreInputs
    /\ UNCHANGED otherThanRating

RatingNext == Rate

SpecRating == RatingInit /\ [][RatingNext]_vars

(* Claims about the accessibility score, checked under SpecRating *)

Rated == scoreComponents # <<>>

\* the value may lie in lo..hi
MayBeWithin(v, lo, hi) == ~RLt(v.hi, Num(lo)) /\ ~RLt(Num(hi), v.lo)
\* the value does lie in lo..hi
IsWithin(v, lo, hi) == RLe(Num(lo), v.lo) /\ RLe(v.hi, Num(hi))

\* C25: for every house price, travel time and area that are not negative the
\* price score and the time score are between 0 and 40, the weighted area
\* score between 0 and 20 and the combined score between 0 and 100.
C25_ScoresInDocumentedRanges ==
    Rated =>
        /\ MayBeWithin(scoreComponents[1].priceScore, 0, 40)
        /\ MayBeWithin(scoreComponents[1].timeScore, 0, 40)
        /\ MayBeWithin(times(areaWeight, scoreComponents[1].areaScore), 0, 20)
        /\ MayBeWithin(scoreComponents[1].combinedScore, 0, 100)

\* what does hold: the time score and the weighted area score are in their
\* ranges and no score exceeds its maximum
ScoresBelowMaxima ==
    Rated =>
        /\ IsWithin(scoreComponents[1].timeScore, 0, 40)
        /\ IsWithin(times(areaWeight, scoreComponents[1].areaScore), 0, 20)
        /\ RLe(scoreComponents[1].priceScore.hi, Num(40))
        /\ RLe(scoreComponents[1].combinedScore.hi, Num(100))

\* the price score is negative exactly for a house price between 0 and half
\* the Glasgow average, and not negative otherwise
PriceScoreNegativeBelowHalfAverage ==
    Rated =>
        IF RLt(Num(0), scoreInputs.housePrice) /\ RLt(scoreInputs.housePrice, Num(90000))
        THEN RLt(scoreComponents[1].priceScore.hi, Num(0))
        ELSE RLe(Num(0), scoreComponents[1].priceScore.lo)

-----------------------------------------------------------------------------
(* MapInteractions and the click handlers the map pages register with it *)

\* the layers of the map pages, the lowest first
Layers == <<"datazones-fill", "empty-lands-fill", "railway-stations-circle",
            "scored-lands-fill", "scored-lands-outline">>
LayerIds == {Layers[i] : i \in 1..Len(Layers)}

SelectableSources == {"empty-lands", "railway-stations", "scored-lands"}

\* a feature as queryRenderedFeatures returns it; key tells the features of
\* a source apart and is no part of the program's data
Rendered(key, layer, source, id, type) ==
    [key |-> key, layer |-> layer, source |-> source, id |-> id, type |-> type]

\* the features of 'empty-lands' and of 'railway-stations' are built without
\* an id; those of 'scored-lands' are as scored-empty-lands.geojson has them
land(k) == Rendered(k, "empty-lands-fill", "empty-lands", Undefined, "Polygon")
station(k) == Rendered(k, "railway-stations-circle", "railway-stations", Undefined, "Point")
scored(k) ==
    Rendered(k, "scored-lands-fill", "scored-lands",
             IF k = 3 THEN Undefined ELSE NumV(Num(k)),
             IF k = 2 THEN "MultiPolygon" ELSE "Polygon")
outline(k) == [scored(k) EXCEPT !.layer = "scored-lands-outline"]
zone(k) == Rendered(k, "datazones-fill", "datazones", Undefined, "Polygon")

\* what lies under a click, the topmost feature first
Stacks ==
    {<<>>, <<zone(1)>>,
     <<land(1), zone(1)>>, <<land(2), zone(1)>>,
     <<station(1), land(1), zone(1)>>, <<station(2), zone(1)>>,
     <<scored(1)>>, <<scored(2)>>, <<scored(3)>>, <<outline(1), scored(1)>>}

\* the handlers of registerClickHandler: those that highlight the feature
\* and the ones of map.js that do not
Handlers ==
    [l \in LayerIds |->
        CASE l = "empty-lands-fill" -> {"highlightEmptyLand", "selectEmptyLand"}
          [] l = "railway-stations-circle" -> {"highlightStation", "selectStation"}
          [] l = "scored-lands-fill" -> {"highlightScoredLand"}
          [] OTHER -> {}]

MaxRegistered == 2

ClickInit ==
    /\ clickHandlers = [l \in {} |-> ""]
    /\ registered = [l \in LayerIds |-> 0]
    /\ featureStates = [s \in SelectableSources |-> {}]
    /\ selectedIds = [s \in SelectableSources |-> Null]
    /\ invoked = <<>>
    /\ lastStack = <<>>
    /\ lastClicked = [s \in SelectableSources |-> <<>>]
    /\ passedOn = <<>>
    /\ camera = <<>>
    /\ IsoIdle
    /\ ScoreIdle
    /\ GeomIdle
    /\ BoxIdle
    /\ AccessIdle
    /\ RatingIdle

\* this.clickHandlers[layerId] = handler
assigned(handlers, layerId, handler) ==
    [l \in DOMAIN handlers \cup {layerId} |-> IF l = layerId THEN handler ELSE handlers[l]]

registerClickHandler(layerId, handler) ==
    /\ registered[layerId] < MaxRegistered
    /\ clickHandlers' = assigned(clickHandlers, layerId, handler)
    /\ registered' = [registered EXCEPT ![layerId] = @ + 1]
    /\ UNCHANGED <<featureStates, selectedIds, invoked, lastStack, lastClicked, passedOn, camera>>
    /\ UNCHANGED otherThanClicks

\* map.setFeatureState({source, id}, {selected}): without an id the map
\* reports an error and sets nothing
setFeatureState(states, source, id, selected) ==
    IF id.t # "number" THEN states
    ELSE [states EXCEPT ![source] = IF selected THEN @ \cup {id} ELSE @ \ {id}]

\* the previously selected feature is reset, then the new one is set
highlighted(states, source, previous, id) ==
    setFeatureState(IF previous # Null
                    THEN setFeatureState(states, source, previous, FALSE)
                    ELSE states,
                    source, id, TRUE)

\* zoomToFeature flies to a Point or a Polygon
zoomToFeature(feature) ==
    camera' = IF feature.type \in {"Point", "Polygon"} THEN <<feature.key>> ELSE camera

\* the handlers that highlight: selectedEmptyLandId, selectedStationId of
\* the isochrone page and highlightSelectedLand of the static map
highlightAndPass(feature, to) ==
    /\ zoomToFeature(feature)
    /\ featureStates' = highlighted(featureStates, feature.source,
                                    selectedIds[feature.source], feature.id)
    /\ selectedIds' = [selectedIds EXCEPT ![feature.source] = feature.id]
    /\ lastClicked' = [lastClicked EXCEPT ![feature.source] = <<feature.key>>]
    /\ passedOn' = <<[to |-> to, feature |-> feature]>>

\* the handlers of map.js: zoom and handleFeatureSelection
selectOnly(feature) ==
    /\ zoomToFeature(feature)
    /\ passedOn' = <<[to |-> "handleFeatureSelection", feature |-> feature]>>
    /\ UNCHANGED <<featureStates, selectedIds, lastClicked>>

run(handler, feature) ==
    IF handler \in {"highlightEmptyLand", "highlightStation"}
    THEN highlightAndPass(feature, "handleFeatureSelection")
    ELSE IF handler = "highlightScoredLand"
         THEN highlightAndPass(feature, "displayFeatureScore")
         ELSE selectOnly(feature)

\* mutant of delegate: the first feature from the top whose layer has a handler
RECURSIVE delegateToFirstHandled(_, _)
delegateToFirstHandled(handlers, features) ==
    IF Len(features) = 0 THEN <<>>
    ELSE IF features[1].layer \in DOMAIN handlers
         THEN <<[handler |-> handlers[features[1].layer], feature |-> features[1]]>>
         ELSE delegateToFirstHandled(handlers, Tail(features))

\* the handler of the topmost feature's layer, if the click hit a feature
\* and that layer has one
delegate(handlers, features) ==
    IF Len(features) > 0 /\ features[1].layer \in DOMAIN handlers
    THEN <<[handler |-> handlers[features[1].layer], feature |-> features[1]]>>
    ELSE <<>>

\* map.on('click'): queryRenderedFeatures(e.point) returned features
MapClick(features) ==
    /\ lastStack' = features
    /\ invoked' = delegate(clickHandlers, features)
    /\ IF invoked' = <<>>
       THEN UNCHANGED <<featureStates, selectedIds, lastClicked, passedOn, camera>>
       ELSE run(invoked'[1].handler, invoked'[1].feature)
    /\ UNCHANGED <<clickHandlers, registered>>
    /\ UNCHANGED otherThanClicks

ClickNext ==
    \/ \E l \in LayerIds : \E h \in Handlers[l] : registerClickHandler(l, h)
    \/ \E features \in Stacks : MapClick(features)

SpecClicks == ClickInit /\ [][ClickNext]_vars

(* Claims about the selection highlight and the click dispatch, checked *)
(* under SpecClicks                                                     *)

AllRendered == UNION {{s[i] : i \in 1..Len(s)} : s \in Stacks}

\* the features of a source that have feature-state selected = true
SelectedKeys(source) ==
    {f.key : f \in {g \in AllRendered : /\ g.source = source
                                        /\ g.id.t = "number"
                                        /\ g.id \in featureStates[source]}}

\* C26: of each source the feature with feature-state selected = true is the
\* one feature whose click was handled most recently, and none is selected
\* before the first click.
C26_SelectedIsLastClicked ==
    \A source \in SelectableSources :
        SelectedKeys(source) = {lastClicked[source][i] : i \in 1..Len(lastClicked[source])}

\* what does hold: at most one feature of a source is selected, and a
\* selected feature is the one clicked most recently
AtMostOneSelected ==
    \A source \in SelectableSources :
        /\ Cardinality(SelectedKeys(source)) <= 1
        /\ SelectedKeys(source) \subseteq {lastClicked[source][i] : i \in 1..Len(lastClicked[source])}

\* on features that carry an id the highlight follows the click
SelectedFollowsClickWithId ==
    \A source \in SelectableSources :
        (/\ selectedIds[source] # Null
         /\ selectedIds[source] # Undefined) =>
            SelectedKeys(source) = {lastClicked[source][1]}

\* C27: a map click invokes at most one registered handler, the one of the
\* layer of the topmost feature under the click, with that feature; it
\* invokes none when no feature is under the click or the topmost feature's
\* layer has no handler, whatever lies below. A handler registered again for
\* a layer replaces the earlier one.
C27_OnlyTopmostLayerHandled ==
    [][/\ lastStack' # lastStack \/ invoked' # invoked =>
             /\ Len(invoked') <= 1
             /\ \/ lastStack' = <<>>
                \/ lastStack'[1].layer \notin DOMAIN clickHandlers
                \/ invoked' = <<[handler |-> clickHandlers[lastStack'[1].layer],
                                 feature |-> lastStack'[1]]>>
             /\ (lastStack' = <<>> \/ lastStack'[1].layer \notin DOMAIN clickHandlers)
                   => (invoked' = <<>> /\ passedOn' = passedOn /\ selectedIds' = selectedIds)
             /\ invoked' # <<>> => passedOn' = <<[to |-> IF invoked'[1].handler = "highlightScoredLand"
                                                           THEN "displayFeatureScore"
                                                           ELSE "handleFeatureSelection",
                                                   feature |-> lastStack'[1]]>>
       /\ \A l \in LayerIds :
             registered'[l] # registered[l] =>
                /\ l \in DOMAIN clickHandlers'
                /\ \A k \in DOMAIN clickHandlers' \ {l} :
                      k \in DOMAIN clickHandlers /\ clickHandlers'[k] = clickHandlers[k]]_vars

\* a click on the outline of a scored land, which has the land's fill below
\* it, ran no handler; and the handler of the lands was registered twice and
\* the click on a station over a land ran the station's handler
C27_Witness ==
    /\ registered["empty-lands-fill"] = 2
    /\ clickHandlers["empty-lands-fill"] = "selectEmptyLand"
    /\ "scored-lands-fill" \in DOMAIN clickHandlers
    /\ lastStack = <<outline(1), scored(1)>>
    /\ invoked = <<>>
    /\ passedOn # <<>> /\ passedOn[1].feature = station(1)

-----------------------------------------------------------------------------
(* Claims about the toggle and the initialization of the accessibility *)
(* view, checked under SpecAccess                                      *)

IsochroneOnMap == isoLayer /\ accessSource # <<>>

VisibleIffOnMap == generating = {} => (isochronesVisible <=> IsochroneOnMap)

\* C28: with no generateIsochrones call in flight isochronesVisible is true
\* exactly when the 'iso' source and 'isoLayer' are on the map; a toggle click
\* with a selected land clears the isochrones when they are visible and
\* requests isochrones for that land otherwise; a toggle click with no land
\* selected issues no request and changes no state (it alerts).
C28_ToggleStateMachine ==
    /\ VisibleIffOnMap
    /\ [][/\ VisibleIffOnMap'
          /\ ToggleClicked =>
                IF selectedLandId = 0
                THEN UNCHANGED <<isochronesVisible, accessSource, isoLayer, highlight,
                                 resultsShown, scoreShown, toggleText, generating, generated,
                                 dispatched, selectedLandId, landResults>>
                ELSE IF isochronesVisible
                     THEN /\ ~isochronesVisible' /\ ~IsochroneOnMap'
                          /\ generating' = generating /\ generated' = generated
                     ELSE /\ generated' = generated + 1
                          /\ \E r \in generating' \ generating :
                                r.land = selectedLandId /\ r.center = landCenter(selectedLandId)]_vars

\* the isochrones of the selected land were shown and a toggle click has
\* cleared them
C28_Witness ==
    /\ generating = {} /\ selectedLandId # 0
    /\ ~isochronesVisible /\ ~isoLayer /\ accessSource = <<>>
    /\ dispatched > 0 /\ generated = 1
    /\ alerted = "" /\ called = <<>>

\* C29: a landSelectionChanged event causes at most one call of
\* generateIsochrones or clearIsochrones, and however often
\* initializeIsochrones has run there is one toggle button, one style element
\* and, in effect, one listener of the event.
C29_OneListenerOneCall ==
    /\ Len(called) <= 1
    /\ toggleButtons = 1
    /\ styleElements = 1

\* what does hold: one button and one style element, and no more calls than
\* listeners
OneButtonOneStyle ==
    /\ toggleButtons = 1
    /\ styleElements = 1
    /\ Len(called) <= listeners

-----------------------------------------------------------------------------
(* Claims about the requests of SimpleIsochrone, checked under Spec *)

NoRequestYet == nextReq = 0 /\ pending = {}

\* the one request a step has issued, for the marker's position and the
\* minutes as the step leaves them
IssuedOne(before, after, number, position, mins) ==
    after \ before = {[id |-> number, lngLat |-> position, minutes |-> mins]}

\* C30: no request is issued before a feature has been selected, and a slider
\* change while the marker has no position only updates minutes; once a
\* feature has been selected every selection and every slider change issues
\* exactly one request, for the marker's current position and the current
\* minutes.
C30_RequestsFollowSelection ==
    /\ marker = Undefined => NoRequestYet
    /\ [][/\ marker' = Undefined => (nextReq' = 0 /\ pending' = {})
          /\ nextReq' # nextReq =>
                /\ nextReq' = nextReq + 1
                /\ IssuedOne(pending, pending', nextReq', marker', minutes')
          /\ minutes' # minutes =>
                /\ marker' = marker
                /\ IF marker = Undefined
                   THEN UNCHANGED <<pending, nextReq, isoData, datazonesWithinIsochrone>>
                   ELSE nextReq' = nextReq + 1
          /\ (marker' # marker \/ (status'.kind = "selected" /\ status.kind # "selected")) =>
                /\ minutes' = minutes
                /\ nextReq' = nextReq + 1]_vars

\* the slider was moved to 5 before any selection and no request was made;
\* the land was selected, which made the request for its centre and 5
\* minutes; the slider was moved to 10, which made the second request
C30_Witness ==
    /\ minutes = 10
    /\ marker = ArrV(<<NumV(Rat(58, 5)), NumV(Rat(8, 5))>>)
    /\ pending = {[id |-> 1, lngLat |-> marker, minutes |-> 5],
                  [id |-> 2, lngLat |-> marker, minutes |-> 10]}

====
